---------------------------- MODULE Spec2Model ----------------------------
(***************************************************************************)
(* Model of the SQL ReAct agent (ArooshJ/sql_react_agent):                 *)
(*   src/src/prompts.py  the parser of model output                        *)
(*   src/src/tools.py    the tools and their dispatch                      *)
(*   src/src/agent.py    SQLReActAgent._call_llm and SQLReActAgent.run     *)
(*   src/api.py          run_query_with_full_logging, the request layer's  *)
(*                       copy of the loop                                  *)
(*                                                                         *)
(* Text is modelled as a sequence of lexemes (strings): markers such as    *)
(* "ACTION:", words, and the punctuation the parser looks at.  White space *)
(* between lexemes is implied, so trimming a response is the identity on   *)
(* its lexeme sequence.  In an SQL query the lexeme " " is white space     *)
(* written out, at the places where strip() and rstrip() look for it: a    *)
(* terminator follows the lexeme before it directly unless " " stands      *)
(* between them.                                                           *)
(***************************************************************************)
EXTENDS Integers, Sequences, FiniteSets, TLC

(***************************************************************************)
(* Lexical layer                                                           *)
(***************************************************************************)

\* lexemes that are not matched by the regular expression \w+
NonWords == {"{", "}", "\"", ":", ",", ";", " ", "(", ")",
             "ACTION:", "action:", "THOUGHT:", "OBSERVATION:",
             "FINAL ANSWER:", "final answer:", "Final Answer:",
             "(fi)nal answer:", "employees\n", "ghosts\n"}

IsWord(x) == x \notin NonWords

\* the lexemes in which one character upper-cases to two: "(fi)" stands for
\* the single character U+FB01, the ligature of f and i
Ligatures == {"(fi)nal answer:"}

\* str.upper() on one lexeme (the lexemes of the model that change under it)
Upper(x) ==
    CASE x \in {"final answer:", "Final Answer:", "(fi)nal answer:"}
             -> "FINAL ANSWER:"
      [] x = "action:" -> "ACTION:"
      [] x = "select" -> "SELECT"
      [] x = "limit" -> "LIMIT"
      [] x = "limited" -> "LIMITED"
      [] x \in {"drop", "Drop"} -> "DROP"
      [] x = "dropped" -> "DROPPED"
      [] x = "delete" -> "DELETE"
      [] OTHER -> x

\* the least element of a non-empty set of integers
Min(S) == CHOOSE x \in S : \A y \in S : x <= y

\* F(v) with v evaluated once: the local names of the code, each assigned once
Bind(v, F(_)) == CHOOSE y \in {F(x) : x \in {v}} : TRUE

(***************************************************************************)
(* prompts.py: has_final_answer, extract_final_answer                      *)
(***************************************************************************)

\* "FINAL ANSWER:" in response.upper()
has_final_answer(response) ==
    \E i \in DOMAIN response : Upper(response[i]) = "FINAL ANSWER:"

\* a pattern under re.IGNORECASE matches character by character: a lexeme
\* whose letters are those of the pattern in either case
MatchesIgnoreCase(x, pattern) == Upper(x) = pattern /\ x \notin Ligatures

\* re.search(r'FINAL ANSWER:\s*(.+)', IGNORECASE | DOTALL): the first marker
\* that has text after it; group(1).strip() is the rest of the text
extract_final_answer(response) ==
    LET hits == {i \in DOMAIN response :
                    /\ MatchesIgnoreCase(response[i], "FINAL ANSWER:")
                    /\ i < Len(response)}
    IN  IF hits = {} THEN <<>>
        ELSE SubSeq(response, Min(hits) + 1, Len(response))

(***************************************************************************)
(* json.loads on the captured span: objects whose values are strings,      *)
(* numbers or nested objects.  A parse returns [ok, val, pos]: pos is the  *)
(* index after what was read.                                              *)
(***************************************************************************)

NumberLexemes == {"5"}

JsonFail == [ok |-> FALSE, val |-> <<>>, pos |-> 0]

\* a string literal starting at the quote s[p]: up to the next quote
JsonString(s, p) ==
    Bind({q \in (p + 1)..Len(s) : s[q] = "\""}, LAMBDA closing :
        IF p > Len(s) \/ s[p] # "\"" \/ closing = {} THEN JsonFail
        ELSE Bind(Min(closing), LAMBDA q :
            [ok |-> TRUE,
             val |-> [t |-> "str", s |-> SubSeq(s, p + 1, q - 1)],
             pos |-> q + 1]))

RECURSIVE JsonValue(_, _), JsonObject(_, _), JsonMembers(_, _, _)

JsonValue(s, p) ==
    IF p > Len(s) THEN JsonFail
    ELSE IF s[p] = "\"" THEN JsonString(s, p)
    ELSE IF s[p] = "{" THEN JsonObject(s, p)
    ELSE IF s[p] \in NumberLexemes
         THEN [ok |-> TRUE, val |-> [t |-> "num", s |-> <<s[p]>>], pos |-> p + 1]
    ELSE JsonFail

\* an object starting at the brace s[p]
JsonObject(s, p) ==
    IF p + 1 > Len(s) \/ s[p] # "{" THEN JsonFail
    ELSE IF s[p + 1] = "}"
         THEN [ok |-> TRUE, val |-> [t |-> "obj", o |-> <<>>], pos |-> p + 2]
    ELSE JsonMembers(s, p + 1, <<>>)

\* "key": value pairs from s[p] on, m holding the pairs read so far; a
\* repeated key keeps its last value
JsonMembers(s, p, m) ==
    Bind(JsonString(s, p), LAMBDA k :
        IF ~k.ok \/ k.pos > Len(s) \/ s[k.pos] # ":" THEN JsonFail
        ELSE Bind(JsonValue(s, k.pos + 1), LAMBDA v :
            IF ~v.ok \/ v.pos > Len(s) THEN JsonFail
            ELSE IF s[v.pos] = ","
                 THEN JsonMembers(s, v.pos + 1, (k.val.s :> v.val) @@ m)
            ELSE IF s[v.pos] = "}"
                 THEN [ok |-> TRUE,
                       val |-> [t |-> "obj", o |-> (k.val.s :> v.val) @@ m],
                       pos |-> v.pos + 1]
            ELSE JsonFail))

\* json.loads(json_str): the whole span must be one object
json_loads(span) ==
    Bind(JsonObject(span, 1), LAMBDA r :
        IF r.ok /\ r.pos = Len(span) + 1
        THEN [ok |-> TRUE, val |-> r.val.o]
        ELSE [ok |-> FALSE, val |-> <<>>])

(***************************************************************************)
(* prompts.py: extract_action_from_response                                *)
(***************************************************************************)

\* (None, None)
NoAction == [found |-> FALSE, name |-> "", params |-> <<>>]

\* brace_count after reading response[from..i]
BraceCount(response, from, i) ==
    Cardinality({j \in from..i : response[j] = "{"})
    - Cardinality({j \in from..i : response[j] = "}"})

\* the parse of a span that takes a span that is no object for '{}'
ParseSpan_EmptyOnError(response, start_pos, brace_start, brace_end) ==
    Bind(json_loads(SubSeq(response, brace_start, brace_end)), LAMBDA parsed :
        [found |-> TRUE, name |-> response[start_pos],
         params |-> IF parsed.ok THEN parsed.val ELSE <<>>])

\* the span response[brace_start..brace_end] is parsed
ParseSpan(response, start_pos, brace_start, brace_end) ==
    Bind(json_loads(SubSeq(response, brace_start, brace_end)), LAMBDA parsed :
        IF parsed.ok
        THEN [found |-> TRUE, name |-> response[start_pos], params |-> parsed.val]
        ELSE NoAction)

\* from the opening brace on: the brace that brings brace_count back to 0
MatchBrace(response, start_pos, brace_start) ==
    Bind({j \in brace_start..Len(response) :
             /\ response[j] = "}"
             /\ BraceCount(response, brace_start, j) = 0},
         LAMBDA closes :
             IF closes = {} THEN NoAction
             ELSE ParseSpan(response, start_pos, brace_start, Min(closes)))

\* from the tool name at start_pos on: response.find('{', start_pos)
FindBrace(response, start_pos) ==
    Bind({j \in (start_pos + 1)..Len(response) : response[j] = "{"},
         LAMBDA opens :
             IF opens = {} THEN NoAction
             ELSE Bind(Min(opens), LAMBDA brace_start :
                      MatchBrace(response, start_pos, brace_start)))

extract_action_from_response(response) ==
    \* re.search(r'ACTION:\s*(\w+)'): the first marker followed by a word
    Bind({i \in DOMAIN response :
             /\ response[i] = "ACTION:"
             /\ i < Len(response)
             /\ IsWord(response[i + 1])},
         LAMBDA matches :
             IF matches = {} THEN NoAction
             ELSE Bind(Min(matches) + 1, LAMBDA start_pos :
                      FindBrace(response, start_pos)))

(***************************************************************************)
(* tools.py: the database behind the connection, and the three tools.  A   *)
(* call of a tool either returns a text or raises: [raised, text], text    *)
(* being str(e) when it raised.                                            *)
(***************************************************************************)

Returns(text) == [raised |-> FALSE, text |-> text]
Raises(text)  == [raised |-> TRUE, text |-> text]

\* the tables of the database and their rows (database/data.py)
TableNames == <<"departments", "employees">>
Tables == {TableNames[i] : i \in DOMAIN TableNames}
TableSize(t) == IF t = "departments" THEN 3 ELSE 8
RowCount(t) == ToString(TableSize(t))

\* the words of the model that hold a shorter word of the model as a proper
\* part (each at its start): <<word, part>>, both in upper case
LongerWords ==
    {<<"LIMITED", "LIMIT">>, <<"DROPPED", "DROP">>, <<"SELECTED", "SELECT">>,
     <<"EXECUTE", "EXEC">>}

\* word in text, for one upper-cased lexeme text: the substring test of Python
Within(text, word) == text = word \/ <<text, word>> \in LongerWords

\* str.startswith that holds of every text
StartsWith_Always(text, word) == TRUE

\* text.startswith(word), for one upper-cased lexeme text: the longer words
\* of the model hold their part at their start
StartsWith(text, word) == Within(text, word)

\* str.strip() and str.rstrip() on a query: the white space lexemes at the
\* two ends, or at the right end, removed
RStrip(q) ==
    Bind({i \in DOMAIN q : q[i] # " "}, LAMBDA kept :
        IF kept = {} THEN <<>>
        ELSE SubSeq(q, 1, CHOOSE i \in kept : \A j \in kept : j <= i))

Strip(q) ==
    Bind({i \in DOMAIN q : q[i] # " "}, LAMBDA kept :
        IF kept = {} THEN <<>>
        ELSE SubSeq(q, Min(kept), CHOOSE i \in kept : \A j \in kept : j <= i))

\* the SELECT statements sqlite3 compiles, among those the lexemes of the
\* model can spell:
\*   [WITH t AS ( SELECT 5 )] SELECT expr [alias] [FROM tables] [LIMIT n]
SqlExprs == {"COUNT(*)", "5", "1"}
SqlNumbers == {"0", "5", "20", "21", "100"}
SqlAliases == {<<>>, <<"employees">>, <<"limited">>, <<"dropped">>}
CteName == "t"
CtePrefix == <<"WITH", CteName, "AS", "(", "SELECT", "5", ")">>
JoinLists ==
    {<<a>> : a \in Tables}
    \cup {<<a, ",", b>> : a, b \in Tables}
    \cup {<<a, ",", b, ",", c>> : a, b, c \in Tables}
SqlFromClauses ==
    {<<>>, <<"FROM", CteName>>}
    \cup {<<"FROM">> \o j : j \in JoinLists}
    \cup {<<"FROM", a, b>> : a, b \in Tables}
SqlLimitClauses == {<<>>} \cup {<<"LIMIT", n>> : n \in SqlNumbers}
SqlShapes == SqlExprs \X SqlAliases \X SqlFromClauses \X SqlLimitClauses

SqlText(p) == <<"SELECT", p[1]>> \o p[2] \o p[3] \o p[4]

\* the number of rows of a FROM clause: the product over the joined tables
RECURSIVE FromSize(_)
FromSize(from) ==
    IF from = <<>> THEN 1
    ELSE IF from[1] \in Tables THEN TableSize(from[1]) * FromSize(Tail(from))
    ELSE FromSize(Tail(from))

\* the rows a compiled SELECT returns
SqlRows(p) ==
    LET from == IF Len(p[3]) = 3 /\ p[3][3] # "," THEN SubSeq(p[3], 1, 2) ELSE p[3]
        all == IF from = <<>> \/ p[1] = "COUNT(*)"
                  THEN <<IF p[1] = "COUNT(*)" THEN ToString(FromSize(from)) ELSE p[1]>>
               ELSE [i \in 1..FromSize(from) |-> p[1]]
        cap == IF p[4] = <<>> THEN Len(all)
               ELSE CHOOSE n \in 0..100 : ToString(n) = p[4][2]
    IN  SubSeq(all, 1, IF Len(all) < cap THEN Len(all) ELSE cap)

\* cursor.description: the name of the one column of a compiled SELECT
SqlColumns(p) == IF p[2] = <<>> THEN <<p[1]>> ELSE p[2]

\* the tokens sqlite3 reads from a text: white space skipped, keywords in
\* either letter case
SqlKeywords == {"SELECT", "FROM", "LIMIT", "WITH", "AS"}
SqlTokens(text) ==
    Bind(SelectSeq(text, LAMBDA x : x # " "), LAMBDA s :
        [i \in DOMAIN s |-> IF Upper(s[i]) \in SqlKeywords THEN Upper(s[i]) ELSE s[i]])

\* the shapes a SELECT is an instance of, none or one: the expression, then
\* an alias if the next lexeme is one, a LIMIT clause if the last two
\* lexemes are one, and a FROM clause between them; the table of the WITH
\* clause is known only after a WITH clause
SqlParse(select, cte) ==
    IF Len(select) < 2 \/ select[1] # "SELECT" \/ select[2] \notin SqlExprs THEN {}
    ELSE
    Bind(SubSeq(select, 3, Len(select)), LAMBDA rest :
    Bind(IF rest # <<>> /\ <<rest[1]>> \in SqlAliases THEN 1 ELSE 0, LAMBDA a :
    Bind(IF /\ Len(rest) - a >= 2
            /\ SubSeq(rest, Len(rest) - 1, Len(rest)) \in SqlLimitClauses
         THEN 2 ELSE 0, LAMBDA l :
    Bind(SubSeq(rest, a + 1, Len(rest) - l), LAMBDA from :
        IF from \in SqlFromClauses /\ (from = <<"FROM", CteName>> => cte)
        THEN {<<select[2], SubSeq(rest, 1, a), from,
                SubSeq(rest, Len(rest) - l + 1, Len(rest))>>}
        ELSE {}))))

\* the result of a statement that sqlite3 refused
SqlError(err) == [ok |-> FALSE, rows |-> <<>>, cols |-> <<>>, err |-> err]

\* cursor.execute(stmt) that runs the first statement and ignores the rest
sqlite_execute_IgnoreTail(stmt) ==
    Bind({i \in DOMAIN stmt : stmt[i] = ";"}, LAMBDA semis :
    Bind(IF semis = {} THEN Len(stmt) + 1 ELSE Min(semis), LAMBDA end :
    Bind(SqlTokens(SubSeq(stmt, 1, end - 1)), LAMBDA body :
    Bind(Len(body) >= Len(CtePrefix) /\ SubSeq(body, 1, Len(CtePrefix)) = CtePrefix,
         LAMBDA cte :
    Bind(IF cte THEN SubSeq(body, Len(CtePrefix) + 1, Len(body)) ELSE body,
         LAMBDA select :
    Bind(SqlParse(select, cte), LAMBDA parses :
        IF parses = {} THEN SqlError(<<"syntax error">>)
        ELSE Bind(CHOOSE p \in parses : TRUE, LAMBDA p :
                [ok |-> TRUE, rows |-> SqlRows(p), cols |-> SqlColumns(p),
                 err |-> <<>>])))))))

\* cursor.execute(stmt) of sqlite3: the text up to the first terminator is
\* compiled, text after it other than white space is refused, then the rows
\* are fetched; rows and column names, or the message of the sqlite3.Error
sqlite_execute(stmt) ==
    Bind({i \in DOMAIN stmt : stmt[i] = ";"}, LAMBDA semis :
    Bind(IF semis = {} THEN Len(stmt) + 1 ELSE Min(semis), LAMBDA end :
    Bind(SqlTokens(SubSeq(stmt, 1, end - 1)), LAMBDA body :
    Bind(SqlTokens(SubSeq(stmt, end + 1, Len(stmt))), LAMBDA tail :
    Bind(Len(body) >= Len(CtePrefix) /\ SubSeq(body, 1, Len(CtePrefix)) = CtePrefix,
         LAMBDA cte :
    Bind(IF cte THEN SubSeq(body, Len(CtePrefix) + 1, Len(body)) ELSE body,
         LAMBDA select :
    Bind(SqlParse(select, cte), LAMBDA parses :
        IF parses = {} THEN SqlError(<<"syntax error">>)
        ELSE IF tail # <<>>
            THEN SqlError(<<"You can only execute one statement at a time.">>)
        ELSE Bind(CHOOSE p \in parses : TRUE, LAMBDA p :
                [ok |-> TRUE, rows |-> SqlRows(p), cols |-> SqlColumns(p),
                 err |-> <<>>]))))))))

\* EXPLAIN compiles the statement and runs nothing
sqlite_explain(stmt) == sqlite_execute(stmt).ok

\* one entry of the log of a connection
DbOp(op, stmt) == [op |-> op, stmt |-> stmt]

\* dangerous_keywords, in the order of the list
dangerous_keywords ==
    <<"DELETE", "DROP", "INSERT", "UPDATE", "ALTER", "TRUNCATE", "EXEC",
      "EXECUTE", "CREATE", "REPLACE", "PRAGMA", "ATTACH", "DETACH">>
DangerousKeywords == {dangerous_keywords[k] : k \in DOMAIN dangerous_keywords}

\* re.search(r'\bKEYWORD\b', text) that matches a part of a word as well
MatchesKeyword_Substring(text, keyword) == Within(text, keyword)

\* re.search(r'\bKEYWORD\b', text) for one upper-cased lexeme text: the
\* keyword as a whole word
MatchesKeyword(text, keyword) == text = keyword

\* query.rstrip(';') on a lexeme sequence: the trailing terminators removed
RStripSemicolons(q) ==
    Bind({i \in DOMAIN q : q[i] # ";"}, LAMBDA kept :
        IF kept = {} THEN <<>>
        ELSE SubSeq(q, 1, CHOOSE i \in kept : \A j \in kept : j <= i))

Rejected(msg) == [valid |-> FALSE, msg |-> msg, log |-> <<>>]

\* validate_sql_query that looks for the keywords before it looks for a
\* second statement
validate_sql_query_KeywordsFirst(query) ==
    Bind(Strip(query), LAMBDA query_stripped :
    Bind([i \in DOMAIN query_stripped |-> Upper(query_stripped[i])],
         LAMBDA query_upper :
    Bind({k \in DOMAIN dangerous_keywords :
            \E i \in DOMAIN query_upper :
                MatchesKeyword(query_upper[i], dangerous_keywords[k])},
         LAMBDA found :
        IF query_upper = <<>>
           \/ ~(StartsWith(query_upper[1], "SELECT") \/ StartsWith(query_upper[1], "WITH"))
            THEN Rejected(<<"Only SELECT queries (including WITH/CTEs) are allowed.">>)
        ELSE IF found # {}
            THEN Rejected(<<"Dangerous keyword", dangerous_keywords[Min(found)],
                            "detected.">>)
        ELSE IF \E i \in DOMAIN RStrip(RStripSemicolons(query_stripped)) :
                    query_stripped[i] = ";"
            THEN Rejected(<<"Multiple statements not allowed.">>)
        ELSE
        Bind(sqlite_execute(query), LAMBDA explained :
            IF explained.ok
                THEN [valid |-> TRUE, msg |-> <<>>,
                      log |-> <<DbOp("explain", query)>>]
            ELSE [valid |-> FALSE,
                  msg |-> <<"Invalid SQL syntax:">> \o explained.err,
                  log |-> <<DbOp("explain", query)>>]))))

\* validate_sql_query: [valid, msg], and log, what it asked of the connection
validate_sql_query(query) ==
    Bind(Strip(query), LAMBDA query_stripped :
    Bind([i \in DOMAIN query_stripped |-> Upper(query_stripped[i])],
         LAMBDA query_upper :
    Bind({k \in DOMAIN dangerous_keywords :
            \E i \in DOMAIN query_upper :
                MatchesKeyword(query_upper[i], dangerous_keywords[k])},
         LAMBDA found :
        IF query_upper = <<>>
           \/ ~(StartsWith(query_upper[1], "SELECT") \/ StartsWith(query_upper[1], "WITH"))
            THEN Rejected(<<"Only SELECT queries (including WITH/CTEs) are allowed.">>)
        ELSE IF \E i \in DOMAIN RStrip(RStripSemicolons(query_stripped)) :
                    query_stripped[i] = ";"
            THEN Rejected(<<"Multiple statements not allowed.">>)
        ELSE IF found # {}
            THEN Rejected(<<"Dangerous keyword", dangerous_keywords[Min(found)],
                            "detected.">>)
        ELSE
        Bind(sqlite_execute(query), LAMBDA explained :
            IF explained.ok
                THEN [valid |-> TRUE, msg |-> <<>>,
                      log |-> <<DbOp("explain", query)>>]
            ELSE [valid |-> FALSE,
                  msg |-> <<"Invalid SQL syntax:">> \o explained.err,
                  log |-> <<DbOp("explain", query)>>]))))

default_limit == 100

\* add_limit_if_missing that appends the cap whatever the query holds
add_limit_if_missing_Always(query) ==
    RStrip(RStripSemicolons(query)) \o <<"LIMIT", ToString(default_limit)>>

\* 'LIMIT' in query.upper() is a test on the characters of the text
add_limit_if_missing(query) ==
    IF \E i \in DOMAIN query : Within(Upper(query[i]), "LIMIT") THEN query
    ELSE RStrip(RStripSemicolons(query)) \o <<"LIMIT", ToString(default_limit)>>

\* the names that are an identifier followed by one newline
EndsInNewline == {"employees\n", "ghosts\n"}

\* the names made of letters, digits and underscores, the first no digit
IsPlainIdentifier(s) ==
    Len(s) = 1 /\ IsWord(s[1]) /\ s[1] \notin NumberLexemes \cup {"COUNT(*)"}

\* sanitize_identifier accepts: re.match(r'^[a-zA-Z_][a-zA-Z0-9_]*$', s); the
\* $ of Python matches at the end of the text and before a newline that
\* ends the text
IsIdentifier(s) ==
    IsPlainIdentifier(s) \/ (Len(s) = 1 /\ s[1] \in EndsInNewline)

\* what a tool returns: the text, and what it asked of the connection
Logged(text, log) == [raised |-> FALSE, text |-> text, log |-> log]

\* cursor.execute(stmt, params): a statement with bound parameters
DbParamOp(stmt, params) == [op |-> "lookup", stmt |-> stmt, params |-> params]

\* the look-up of a table in sqlite_master, the name bound as a parameter
TableLookup(name) ==
    DbParamOp(<<"SELECT", "name", "FROM", "sqlite_master", "WHERE", "name=?">>, name)

\* the statements of describe_table the name is written into
TableInfo(name) ==
    <<DbOp("pragma", <<"PRAGMA", "table_info(">> \o name \o <<")">>),
      DbOp("execute", <<"SELECT", "COUNT(*)", "FROM">> \o name)>>

list_tables ==
    IF TableNames = <<>> THEN Returns(<<"No tables found in database.">>)
    ELSE Returns(<<"Tables in database:">> \o TableNames)

\* describe_table that raises when the table is missing
describe_table_RaisesOnMissing(table_name) ==
    IF table_name.t # "str"
        THEN [raised |-> TRUE, text |-> <<"TypeError">>, log |-> <<>>]
    ELSE IF ~IsIdentifier(table_name.s)
        THEN Logged(<<"Error:", "Invalid identifier">> \o table_name.s, <<>>)
    ELSE IF table_name.s[1] \notin Tables
        THEN [raised |-> TRUE,
              text |-> <<"Error: Table">> \o table_name.s \o <<"does not exist.">>,
              log |-> <<TableLookup(table_name.s)>>]
    ELSE Logged(<<"Table:", table_name.s[1], "Row count:",
                  RowCount(table_name.s[1]), "Columns:">>,
                <<TableLookup(table_name.s)>> \o TableInfo(table_name.s))

\* describe_table(db_conn, table_name), table_name a parsed JSON value:
\* [raised, text], and log, what it asked of the connection
describe_table(table_name) ==
    IF table_name.t # "str"
        \* re.match on a value that is no string
        THEN [raised |-> TRUE, text |-> <<"TypeError">>, log |-> <<>>]
    ELSE IF ~IsIdentifier(table_name.s)
        THEN Logged(<<"Error:", "Invalid identifier">> \o table_name.s, <<>>)
    ELSE IF table_name.s[1] \notin Tables
        THEN Logged(<<"Error: Table">> \o table_name.s \o <<"does not exist.">>,
                    <<TableLookup(table_name.s)>>)
    ELSE Logged(<<"Table:", table_name.s[1], "Row count:",
                  RowCount(table_name.s[1]), "Columns:">>,
                <<TableLookup(table_name.s)>> \o TableInfo(table_name.s))

display_limit == 20

\* the text for an executed query that prints the note whenever the display
\* is full
FormatRows_NoteWhenFull(res) ==
    LET n == Len(res.rows)
        shown == IF n < display_limit THEN n ELSE display_limit
    IN  IF ~res.ok THEN <<"Database error:">> \o res.err
        ELSE IF n = 0
            THEN <<"Query executed successfully but returned no results.">>
        ELSE <<"Query returned", ToString(n), "row(s):", "">>
             \o res.cols \o <<"---">>
             \o SubSeq(res.rows, 1, shown)
             \o (IF n >= shown /\ shown = display_limit
                 THEN <<"...", ToString(n - shown), "more rows not shown">>
                 ELSE <<>>)

\* the text for the rows of an executed query: title, empty line, header,
\* rule, the rows shown, the note
FormatRows(res) ==
    LET n == Len(res.rows)
        shown == IF n < display_limit THEN n ELSE display_limit
    IN  IF ~res.ok THEN <<"Database error:">> \o res.err
        ELSE IF n = 0
            THEN <<"Query executed successfully but returned no results.">>
        ELSE <<"Query returned", ToString(n), "row(s):", "">>
             \o res.cols \o <<"---">>
             \o SubSeq(res.rows, 1, shown)
             \o (IF n > shown
                 THEN <<"...", ToString(n - shown), "more rows not shown">>
                 ELSE <<>>)

\* query_database that runs the query before it asks the validator
query_database_ExecuteFirst(query) ==
    IF query.t # "str"
        THEN Logged(<<"Unexpected error:", "AttributeError">>, <<>>)
    ELSE
    Bind(add_limit_if_missing(query.s), LAMBDA query_with_limit :
    Bind(sqlite_execute(query_with_limit), LAMBDA res :
    Bind(validate_sql_query(query.s), LAMBDA v :
        IF ~v.valid
            THEN Logged(<<"Query validation failed:">> \o v.msg,
                        <<DbOp("execute", query_with_limit)>> \o v.log)
        ELSE Logged(FormatRows(res),
                    <<DbOp("execute", query_with_limit)>> \o v.log))))

\* query_database(db_conn, query), query a parsed JSON value
query_database(query) ==
    IF query.t # "str"
        THEN Logged(<<"Unexpected error:", "AttributeError">>, <<>>)
    ELSE
    Bind(validate_sql_query(query.s), LAMBDA v :
        IF ~v.valid
            THEN Logged(<<"Query validation failed:">> \o v.msg, v.log)
        ELSE
        Bind(add_limit_if_missing(query.s), LAMBDA query_with_limit :
        Bind(sqlite_execute(query_with_limit), LAMBDA res :
            Logged(FormatRows(res),
                   v.log \o <<DbOp("execute", query_with_limit)>>))))

\* the keys of tools_dict, in registry order
ToolNames == <<"list_tables", "describe_table", "query_database">>

\* tools_dict[action_name](**params): Python binds the keyword arguments first
CallTool(name, params) ==
    CASE name = "list_tables" ->
           IF DOMAIN params # {} THEN Raises(<<"TypeError">>) ELSE list_tables
      [] name = "describe_table" ->
           IF DOMAIN params # {<<"table_name">>} THEN Raises(<<"TypeError">>)
           ELSE describe_table(params[<<"table_name">>])
      [] name = "query_database" ->
           IF DOMAIN params # {<<"query">>} THEN Raises(<<"TypeError">>)
           ELSE query_database(params[<<"query">>])

\* agent.py STEP 4: the observation for a parsed action
AgentObservation(name, params) ==
    IF \A i \in DOMAIN ToolNames : ToolNames[i] # name
        THEN <<"Error:", "Unknown tool:", name, "Available tools:">> \o ToolNames
    ELSE LET r == CallTool(name, params)
         IN  IF r.raised THEN <<"Tool execution error:">> \o r.text ELSE r.text

\* api.py: the observation for a parsed action; list_tables is called with
\* the connection only, whatever the parameters
ApiObservation(name, params) ==
    IF name = "list_tables" THEN list_tables.text
    ELSE IF name \in {"describe_table", "query_database"}
        THEN LET r == CallTool(name, params)
             IN  IF r.raised THEN <<"Tool error:">> \o r.text ELSE r.text
    ELSE <<"Unknown tool:", name>>

(***************************************************************************)
(* agent.py: AgentConfig, and what the provider can answer                  *)
(***************************************************************************)

max_iterations == 3
max_retries == 3
min_delay_between_calls == 20
retry_delay == 5

\* AgentConfig.__post_init__: the default stop sequences
stop_sequences == <<"OBSERVATION:", "\nOBSERVATION", "Observation:">>

\* the providers _init_llm supports
Providers == {"groq", "gemini"}

\* the threads of the request handler that share the module-level agent
Threads == {"t1", "t2"}

\* the clock: it starts past any delay of the configuration, moves in units
\* of TimeUnit and is followed up to MaxTime
TimeUnit == 5
MaxTime == 45
StartTime == min_delay_between_calls

NoRequest == [stop |-> <<>>, sent |-> FALSE]

\* no query passed to a tool yet
NoQuery == [t |-> "none", s |-> <<>>]

Q == "\""

\* the raw responses the provider can return
Responses ==
    { <<"THOUGHT:", "txt">>,
      <<"FINAL ANSWER:", "8">>,
      <<"THOUGHT:", "txt", "ACTION:", "list_tables", "{", "}", "final answer:", "txt">>,
      <<"THOUGHT:", "txt", "ACTION:", "list_tables", "{", "}">>,
      <<"ACTION:", "list_tables", "{", Q, "query", Q, ":", "5", "}">>,
      <<"ACTION:", "describe_table", "{", Q, "table_name", Q, ":", Q, "ghosts", Q, "}">>,
      <<"THOUGHT:", "txt", "ACTION:", "query_database", "{", Q, "query", Q, ":",
        Q, "SELECT", "COUNT(*)", "FROM", "employees", Q, "}">>,
      <<"ACTION:", "fly", "{", "}">>,
      <<"THOUGHT:", "txt", "ACTION:", "list_tables", "{", "txt", "}">> }

\* str(e) of the failures a provider call can raise
Failures ==
    { <<"Daily limit", "reached">>,
      <<"quota exceeded", "too many requests">>,
      <<"Rate limit", "hit">>,
      <<"connection reset">> }

\* str.lower() on one lexeme of a failure message
Lower(x) ==
    CASE x = "Daily limit" -> "daily limit"
      [] x = "Rate limit" -> "rate limit"
      [] OTHER -> x

FatalKeywords == {"daily limit", "quota exceeded", "daily quota", "rate_limit_exceeded"}
ThrottleKeywords == {"rate limit", "too many requests", "requests per minute"}

\* any(keyword in error_str for keyword in [...])
HasKeyword(e, keywords) == \E i \in DOMAIN e : Lower(e[i]) \in keywords

\* Classify without the daily-limit test
Classify_NoFatal(e) ==
    IF HasKeyword(e, ThrottleKeywords) THEN "throttle" ELSE "other"

\* Classify that tests the throttling signals before the fatal ones
Classify_ThrottleFirst(e) ==
    IF HasKeyword(e, ThrottleKeywords) THEN "throttle"
    ELSE IF HasKeyword(e, FatalKeywords) THEN "fatal"
    ELSE "other"

\* the class of a failure, in the order the except clause tests it
Classify(e) ==
    IF HasKeyword(e, FatalKeywords) THEN "fatal"
    ELSE IF HasKeyword(e, ThrottleKeywords) THEN "throttle"
    ELSE "other"

\* RaisedError that wraps every exhausted failure in the rate-limit error
RaisedError_AlwaysRateLimit(e) ==
    CASE Classify(e) = "fatal" ->
           <<"DAILY TOKEN LIMIT REACHED!", "Original error:">> \o e
      [] OTHER ->
           <<"Rate limit persists after", ToString(max_retries), "retries">>

\* str() of what _call_llm raises on a failure e that ends it
RaisedError(e) ==
    CASE Classify(e) = "fatal" ->
           <<"DAILY TOKEN LIMIT REACHED!", "Original error:">> \o e
      [] Classify(e) = "throttle" ->
           <<"Rate limit persists after", ToString(max_retries), "retries">>
      [] OTHER -> e

system_prompt == <<"SYSTEM_PROMPT">>
UserQueries == {<<"q1">>, <<"q2">>}

\* the runs made on one agent
MaxRuns == 2

Message(role, content) == [role |-> role, content |-> content]

\* the hint of agent.py for a response with neither action nor final answer
Corrective == <<"Error: Expected ACTION or FINAL ANSWER. Please provide one.">>

IsPrefix(s, t) == Len(s) <= Len(t) /\ SubSeq(t, 1, Len(s)) = s

(***************************************************************************)
(* State.  layer tells which loop is running: SQLReActAgent.run ("agent")  *)
(* or run_query_with_full_logging ("api").                                 *)
(***************************************************************************)
VARIABLES
    pc,             \* where the run is
    layer,          \* "agent" or "api"
    user_query,     \* the query of the run
    history,        \* the conversation
    iteration,      \* the loop variable
    attempt,        \* _call_llm's loop variable
    response,       \* the last raw response
    action,         \* what extract_action_from_response returned
    observation,    \* the observation of the dispatched action
    error,          \* str(e) of the exception raised by _call_llm
    steps,          \* api: the step records
    result,         \* agent: the string run returned
    envelope,       \* api: the mapping run_query_with_full_logging returned
    \* history variables of the run, for stating properties
    outcome,        \* the path by which the run ended
    llm_calls,      \* _call_llm invocations of the run
    sent,           \* the messages passed to the latest provider attempt
    len_at_start,   \* Len(history) when the iteration began
    dispatched,     \* dispatch steps of the iteration
    runs,           \* the runs started on the agent
    db_conn,        \* api: the connection the request opened
    conn_used       \* the connection the latest tool call was given

\* the client (one SQLReActAgent shared by the threads of the request
\* handler) seen from _call_llm, with the clock
VARIABLES
    now,            \* time.time()
    last_api_call,  \* self._last_api_call
    llm_provider,   \* self.llm_provider
    cpc,            \* per thread: where its _call_llm is
    cattempt,       \* per thread: _call_llm's loop variable
    wake,           \* per thread: when its time.sleep may return
    cfail,          \* per thread: str(e) of the latest provider failure
    cerror,         \* per thread: str() of what its _call_llm raised
    request,        \* per thread: the keyword arguments of its latest provider call
    \* history variables of the client
    made,           \* per thread: provider attempts of its _call_llm
    sleeps,         \* per thread: the backoff sleeps of its _call_llm
    call_log,       \* the latest two provider attempts: [time, thread, attempt]
    concurrent      \* two _call_llm have been in progress at once

\* one call of a tool on a connection
VARIABLES
    tool_called,    \* the function that was called
    tool_calls,     \* how many times it was applied
    tool_query,     \* its argument
    tool_result,    \* what it returned
    db_log          \* what the connection was asked to do, in order

run_vars == <<pc, layer, user_query, history, iteration, attempt, response, action,
              observation, error, steps, result, envelope, outcome, llm_calls,
              sent, len_at_start, dispatched, runs, db_conn, conn_used>>

client_vars == <<now, last_api_call, llm_provider, cpc, cattempt, wake, cfail,
                 cerror, request, made, sleeps, call_log, concurrent>>

tool_vars == <<tool_called, tool_calls, tool_query, tool_result, db_log>>

vars == <<run_vars, client_vars, tool_vars>>

NoEnvelope == [final_answer |-> <<>>, steps |-> <<>>, iterations |-> 0,
               status |-> "none"]

\* the loop before any run
RunIdle ==
    /\ pc = "idle"
    /\ layer = "agent"
    /\ user_query = <<>>
    /\ history = <<>>
    /\ iteration = 0
    /\ attempt = 0
    /\ response = <<>>
    /\ action = NoAction
    /\ observation = <<>>
    /\ error = <<>>
    /\ steps = <<>>
    /\ result = <<>>
    /\ envelope = NoEnvelope
    /\ outcome = "none"
    /\ llm_calls = 0
    /\ sent = <<>>
    /\ len_at_start = 0
    /\ dispatched = 0
    /\ runs = 0
    /\ db_conn = "none"
    /\ conn_used = "none"

\* SQLReActAgent.__init__ with the provider p: no call made yet, the clock
\* far past the minimum delay
ClientIdle(p) ==
    /\ now = StartTime
    /\ last_api_call = 0
    /\ llm_provider = p
    /\ cpc = [t \in Threads |-> "idle"]
    /\ cattempt = [t \in Threads |-> 0]
    /\ wake = [t \in Threads |-> 0]
    /\ cfail = [t \in Threads |-> <<>>]
    /\ cerror = [t \in Threads |-> <<>>]
    /\ request = [t \in Threads |-> NoRequest]
    /\ made = [t \in Threads |-> 0]
    /\ sleeps = [t \in Threads |-> <<>>]
    /\ call_log = <<>>
    /\ concurrent = FALSE

\* no tool called yet
ToolIdle ==
    /\ tool_called = "none"
    /\ tool_calls = 0
    /\ tool_query = NoQuery
    /\ tool_result = <<>>
    /\ db_log = <<>>

Init == RunIdle /\ ClientIdle("groq") /\ ToolIdle

\* api.py: step_data as the loop body creates it
StepData(i) ==
    [iteration |-> i, type |-> "None", thought |-> <<>>, action |-> "",
     action_params |-> <<>>, observation |-> <<>>, raw_llm_response |-> <<>>,
     final_answer |-> <<>>]

\* api.py: llm_response.split("ACTION:")[0].replace("THOUGHT:", "").strip()
Thought(r) ==
    LET acts == {i \in DOMAIN r : r[i] = "ACTION:"}
        first == IF acts = {} THEN r ELSE SubSeq(r, 1, Min(acts) - 1)
    IN  IF \E i \in DOMAIN r : r[i] = "THOUGHT:"
        THEN SelectSeq(first, LAMBDA x : x # "THOUGHT:")
        ELSE <<>>

(***************************************************************************)
(* The loop: the steps of SQLReActAgent.run and of                         *)
(* run_query_with_full_logging                                             *)
(***************************************************************************)

\* StartRun on an agent that keeps its conversation: a later run goes on
\* from the history of the run before it
StartRun_KeepHistory(l, q) ==
    /\ pc \in {"idle", "done"}
    /\ runs < MaxRuns
    /\ pc' = "call"
    /\ layer' = l
    /\ user_query' = q
    /\ history' = (IF history = <<>>
                   THEN <<Message("system", system_prompt), Message("user", q)>>
                   ELSE Append(history, Message("user", q)))
    /\ iteration' = 1
    /\ attempt' = 0
    /\ response' = <<>>
    /\ action' = NoAction
    /\ observation' = <<>>
    /\ error' = <<>>
    /\ steps' = <<>>
    /\ result' = <<>>
    /\ envelope' = NoEnvelope
    /\ outcome' = "none"
    /\ llm_calls' = 0
    /\ sent' = <<>>
    /\ len_at_start' = 2
    /\ dispatched' = 0
    /\ runs' = runs + 1
    /\ db_conn' = (IF l = "api" THEN "open" ELSE "none")
    /\ conn_used' = "none"
    /\ UNCHANGED <<client_vars, tool_vars>>

\* run(user_query) / run_query_with_full_logging(agent, query) is called:
\* the history is initialised and the loop is entered with iteration 1
StartRun(l, q) ==
    /\ pc \in {"idle", "done"}
    /\ runs < MaxRuns
    /\ pc' = "call"
    /\ layer' = l
    /\ user_query' = q
    /\ history' = <<Message("system", system_prompt), Message("user", q)>>
    /\ iteration' = 1
    /\ attempt' = 0
    /\ response' = <<>>
    /\ action' = NoAction
    /\ observation' = <<>>
    /\ error' = <<>>
    /\ steps' = <<>>
    /\ result' = <<>>
    /\ envelope' = NoEnvelope
    /\ outcome' = "none"
    /\ llm_calls' = 0
    /\ sent' = <<>>
    /\ len_at_start' = 2
    /\ dispatched' = 0
    /\ runs' = runs + 1
    /\ db_conn' = (IF l = "api" THEN "open" ELSE "none")
    /\ conn_used' = "none"
    /\ UNCHANGED <<client_vars, tool_vars>>

\* _call_llm(history) is entered: the rate-limit wait, then the first attempt
EnterCallLlm ==
    /\ pc = "call"
    /\ pc' = "attempt"
    /\ attempt' = 1
    /\ llm_calls' = llm_calls + 1
    /\ len_at_start' = Len(history)
    /\ dispatched' = 0
    /\ UNCHANGED <<layer, user_query, history, iteration, response, action,
                   observation, error, steps, result, envelope, outcome, sent>>
    /\ UNCHANGED <<runs, db_conn, conn_used, client_vars, tool_vars>>

\* a provider attempt returns the text r
ProviderReturns(r) ==
    /\ pc = "attempt"
    /\ pc' = "returned"
    /\ response' = r
    /\ sent' = history
    /\ UNCHANGED <<layer, user_query, history, iteration, attempt, action,
                   observation, error, steps, result, envelope, outcome,
                   llm_calls, len_at_start, dispatched>>
    /\ UNCHANGED <<runs, db_conn, conn_used, client_vars, tool_vars>>

\* a provider attempt raises e: _call_llm raises (a fatal failure, or the
\* last attempt) or goes to sleep before the next attempt
ProviderFails(e) ==
    /\ pc = "attempt"
    /\ sent' = history
    /\ IF Classify(e) = "fatal" \/ attempt >= max_retries
          THEN pc' = "raised" /\ error' = RaisedError(e)
          ELSE pc' = "backoff" /\ error' = error
    /\ UNCHANGED <<layer, user_query, history, iteration, attempt, response,
                   action, observation, steps, result, envelope, outcome,
                   llm_calls, len_at_start, dispatched>>
    /\ UNCHANGED <<runs, db_conn, conn_used, client_vars, tool_vars>>

\* Backoff with the retry loop written as `while True`: attempt never advances
Backoff_NoIncrement ==
    /\ pc = "backoff"
    /\ pc' = "attempt"
    /\ UNCHANGED <<layer, user_query, history, iteration, attempt, response,
                   action, observation, error, steps, result, envelope, outcome,
                   llm_calls, sent, len_at_start, dispatched>>
    /\ UNCHANGED <<runs, db_conn, conn_used, client_vars, tool_vars>>

\* the backoff sleep ends and the next attempt begins
Backoff ==
    /\ pc = "backoff"
    /\ pc' = "attempt"
    /\ attempt' = attempt + 1
    /\ UNCHANGED <<layer, user_query, history, iteration, response, action,
                   observation, error, steps, result, envelope, outcome,
                   llm_calls, sent, len_at_start, dispatched>>
    /\ UNCHANGED <<runs, db_conn, conn_used, client_vars, tool_vars>>

\* NextPass with the loop written as range(1, max_iterations + 2)
NextPass_OffByOne(i) == IF i <= max_iterations THEN "call" ELSE "after_loop"

\* NextPass with the loop written as range(1, max_iterations)
NextPass_Short(i) == IF i + 1 < max_iterations THEN "call" ELSE "after_loop"

\* the end of a loop pass (also `continue`): the next value of the range, or
\* the loop is exhausted
NextPass(i) == IF i < max_iterations THEN "call" ELSE "after_loop"
NextIteration(i) == IF i < max_iterations THEN i + 1 ELSE i

\* _call_llm raised.  agent.py returns the error string; api.py records an
\* ERROR step and breaks out of the loop
LlmCallFailed ==
    /\ pc = "raised"
    /\ IF layer = "agent"
          THEN /\ pc' = "done"
               /\ result' = <<"Error:", "LLM call failed:">> \o error
               /\ steps' = steps
          ELSE /\ pc' = "after_loop"
               /\ result' = result
               /\ steps' = Append(steps, [StepData(iteration) EXCEPT
                                             !.type = "ERROR",
                                             !.observation = error])
    /\ outcome' = "error"
    /\ UNCHANGED <<layer, user_query, history, iteration, attempt, response,
                   action, observation, error, envelope, llm_calls, sent,
                   len_at_start, dispatched>>
    /\ UNCHANGED <<runs, db_conn, conn_used, client_vars, tool_vars>>

\* AppendAssistant that forgets the append
AppendAssistant_Skip ==
    /\ pc = "returned"
    /\ pc' = "check"
    /\ UNCHANGED <<layer, user_query, history, iteration, attempt, response,
                   action, observation, error, steps, result, envelope, outcome,
                   llm_calls, sent, len_at_start, dispatched>>
    /\ UNCHANGED <<runs, db_conn, conn_used, client_vars, tool_vars>>

\* _call_llm returned: the raw response is appended as an assistant message
AppendAssistant ==
    /\ pc = "returned"
    /\ pc' = "check"
    /\ history' = Append(history, Message("assistant", response))
    /\ UNCHANGED <<layer, user_query, iteration, attempt, response, action,
                   observation, error, steps, result, envelope, outcome,
                   llm_calls, sent, len_at_start, dispatched>>
    /\ UNCHANGED <<runs, db_conn, conn_used, client_vars, tool_vars>>

\* ReturnFinalAnswer that returns without recording the step
ReturnFinalAnswer_NoStep ==
    /\ pc = "check"
    /\ has_final_answer(response)
    /\ pc' = "done"
    /\ outcome' = "final"
    /\ IF layer = "agent"
          THEN /\ result' = extract_final_answer(response)
               /\ UNCHANGED <<steps, envelope>>
          ELSE /\ steps' = steps
               /\ envelope' = [final_answer |-> extract_final_answer(response),
                               steps |-> steps',
                               iterations |-> iteration,
                               status |-> "success"]
               /\ result' = result
    /\ UNCHANGED <<layer, user_query, history, iteration, attempt, response,
                   action, observation, error, llm_calls, sent,
                   len_at_start, dispatched>>
    /\ db_conn' = (IF layer = "api" THEN "closed" ELSE db_conn)
    /\ UNCHANGED <<runs, conn_used, client_vars, tool_vars>>

\* STEP 2: the response has a final answer, which is returned
ReturnFinalAnswer ==
    /\ pc = "check"
    /\ has_final_answer(response)
    /\ pc' = "done"
    /\ outcome' = "final"
    /\ IF layer = "agent"
          THEN /\ result' = extract_final_answer(response)
               /\ UNCHANGED <<steps, envelope>>
          ELSE /\ steps' = Append(steps, [StepData(iteration) EXCEPT
                                   !.raw_llm_response = response,
                                   !.type = "FINAL_ANSWER",
                                   !.final_answer = extract_final_answer(response)])
               /\ envelope' = [final_answer |-> extract_final_answer(response),
                               steps |-> steps',
                               iterations |-> iteration,
                               status |-> "success"]
               /\ result' = result
    /\ UNCHANGED <<layer, user_query, history, iteration, attempt, response,
                   action, observation, error, llm_calls, sent,
                   len_at_start, dispatched>>
    /\ db_conn' = (IF layer = "api" THEN "closed" ELSE db_conn)
    /\ UNCHANGED <<runs, conn_used, client_vars, tool_vars>>

\* ParseAction that does not look at the final-answer check: a response with
\* both an action and a final answer has its action dispatched
ParseAction_IgnoresFinal ==
    /\ pc = "check"
    /\ LET a == extract_action_from_response(response)
       IN  /\ a.found \/ ~has_final_answer(response)
           /\ IF a.found
              THEN /\ pc' = "dispatch"
                   /\ action' = a
                   /\ UNCHANGED <<history, iteration, steps>>
              ELSE /\ pc' = (IF iteration < max_iterations THEN "call" ELSE "after_loop")
                   /\ iteration' = (IF iteration < max_iterations
                                    THEN iteration + 1 ELSE iteration)
                   /\ action' = a
                   /\ IF layer = "agent"
                         THEN /\ history' = Append(history, Message("user", Corrective))
                              /\ steps' = steps
                         ELSE /\ history' = history
                              /\ steps' = Append(steps, [StepData(iteration) EXCEPT
                                    !.raw_llm_response = response,
                                    !.type = "ERROR",
                                    !.observation =
                                        <<"No valid ACTION found in LLM response">>])
    /\ UNCHANGED <<layer, user_query, attempt, response, observation, error,
                   result, envelope, outcome, llm_calls, sent,
                   len_at_start, dispatched>>
    /\ UNCHANGED <<runs, db_conn, conn_used, client_vars, tool_vars>>

\* STEP 3: no final answer, the action is parsed.  Without one, agent.py
\* appends its hint, api.py records an ERROR step, and both `continue`
ParseAction ==
    /\ pc = "check"
    /\ ~has_final_answer(response)
    /\ LET a == extract_action_from_response(response)
       IN  IF a.found
           THEN /\ pc' = "dispatch"
                /\ action' = a
                /\ UNCHANGED <<history, iteration, steps>>
           ELSE /\ pc' = NextPass(iteration)
                /\ iteration' = NextIteration(iteration)
                /\ action' = a
                /\ IF layer = "agent"
                      THEN /\ history' = Append(history, Message("user", Corrective))
                           /\ steps' = steps
                      ELSE /\ history' = history
                           /\ steps' = Append(steps, [StepData(iteration) EXCEPT
                                 !.raw_llm_response = response,
                                 !.type = "ERROR",
                                 !.observation =
                                     <<"No valid ACTION found in LLM response">>])
    /\ UNCHANGED <<layer, user_query, attempt, response, observation, error,
                   result, envelope, outcome, llm_calls, sent,
                   len_at_start, dispatched>>
    /\ UNCHANGED <<runs, db_conn, conn_used, client_vars, tool_vars>>

\* STEP 4: the tool is dispatched and its observation kept
ExecuteTool ==
    /\ pc = "dispatch"
    /\ pc' = "observe"
    /\ observation' = IF layer = "agent"
                      THEN AgentObservation(action.name, action.params)
                      ELSE ApiObservation(action.name, action.params)
    /\ dispatched' = dispatched + 1
    /\ UNCHANGED <<layer, user_query, history, iteration, attempt, response,
                   action, error, steps, result, envelope, outcome, llm_calls,
                   sent, len_at_start>>
    /\ conn_used' = (IF layer = "agent" THEN "agent"
                     ELSE IF action.name \in {"list_tables", "describe_table",
                                              "query_database"}
                         THEN "request"
                     ELSE conn_used)
    /\ UNCHANGED <<runs, db_conn, client_vars, tool_vars>>

\* InjectObservation that writes the observation over the last message
InjectObservation_Overwrite ==
    /\ pc = "observe"
    /\ pc' = (IF iteration < max_iterations THEN "call" ELSE "after_loop")
    /\ iteration' = (IF iteration < max_iterations THEN iteration + 1 ELSE iteration)
    /\ history' = [history EXCEPT ![Len(history)] =
                       Message("user", <<"OBSERVATION:">> \o observation)]
    /\ UNCHANGED <<layer, user_query, attempt, response, action, observation,
                   error, steps, result, envelope, outcome, llm_calls,
                   sent, len_at_start, dispatched>>
    /\ UNCHANGED <<runs, db_conn, conn_used, client_vars, tool_vars>>

\* InjectObservation that appends the bare tool result, without the marker
InjectObservation_NoPrefix ==
    /\ pc = "observe"
    /\ pc' = (IF iteration < max_iterations THEN "call" ELSE "after_loop")
    /\ iteration' = (IF iteration < max_iterations THEN iteration + 1 ELSE iteration)
    /\ history' = Append(history, Message("user", observation))
    /\ UNCHANGED <<layer, user_query, attempt, response, action, observation,
                   error, steps, result, envelope, outcome, llm_calls,
                   sent, len_at_start, dispatched>>
    /\ UNCHANGED <<runs, db_conn, conn_used, client_vars, tool_vars>>

\* STEP 5: the observation is appended as a user message and the pass ends
InjectObservation ==
    /\ pc = "observe"
    /\ pc' = NextPass(iteration)
    /\ iteration' = NextIteration(iteration)
    /\ history' = Append(history, Message("user", <<"OBSERVATION:">> \o observation))
    /\ steps' = IF layer = "agent" THEN steps
                ELSE Append(steps, [StepData(iteration) EXCEPT
                         !.raw_llm_response = response,
                         !.thought = Thought(response),
                         !.type = "REACT_CYCLE",
                         !.action = action.name,
                         !.action_params = action.params,
                         !.observation = observation])
    /\ UNCHANGED <<layer, user_query, attempt, response, action, observation,
                   error, result, envelope, outcome, llm_calls,
                   sent, len_at_start, dispatched>>
    /\ UNCHANGED <<runs, db_conn, conn_used, client_vars, tool_vars>>

\* AfterLoop that returns without closing the connection
AfterLoop_NoClose ==
    /\ pc = "after_loop"
    /\ pc' = "done"
    /\ outcome' = IF outcome = "none" THEN "max_iterations" ELSE outcome
    /\ IF layer = "agent"
          THEN /\ result' = <<"Agent stopped: Reached maximum iterations",
                              ToString(max_iterations), "Last response:">>
                            \o response
               /\ envelope' = envelope
          ELSE /\ envelope' = [final_answer |->
                                   <<"Max iterations reached without final answer">>,
                               steps |-> steps,
                               iterations |-> max_iterations,
                               status |-> "max_iterations"]
               /\ result' = result
    /\ UNCHANGED <<layer, user_query, history, iteration, attempt, response,
                   action, observation, error, steps, llm_calls,
                   sent, len_at_start, dispatched>>
    /\ db_conn' = db_conn
    /\ UNCHANGED <<runs, conn_used, client_vars, tool_vars>>

\* the code after the loop: the max-iterations return
AfterLoop ==
    /\ pc = "after_loop"
    /\ pc' = "done"
    /\ outcome' = IF outcome = "none" THEN "max_iterations" ELSE outcome
    /\ IF layer = "agent"
          THEN /\ result' = <<"Agent stopped: Reached maximum iterations",
                              ToString(max_iterations), "Last response:">>
                            \o response
               /\ envelope' = envelope
          ELSE /\ envelope' = [final_answer |->
                                   <<"Max iterations reached without final answer">>,
                               steps |-> steps,
                               iterations |-> max_iterations,
                               status |-> "max_iterations"]
               /\ result' = result
    /\ UNCHANGED <<layer, user_query, history, iteration, attempt, response,
                   action, observation, error, steps, llm_calls,
                   sent, len_at_start, dispatched>>
    /\ db_conn' = (IF layer = "api" THEN "closed" ELSE db_conn)
    /\ UNCHANGED <<runs, conn_used, client_vars, tool_vars>>

\* the steps of a run in progress
Step ==
    \/ EnterCallLlm
    \/ \E r \in Responses : ProviderReturns(r)
    \/ \E e \in Failures : ProviderFails(e)
    \/ Backoff
    \/ LlmCallFailed
    \/ AppendAssistant
    \/ ReturnFinalAnswer
    \/ ParseAction
    \/ ExecuteTool
    \/ InjectObservation
    \/ AfterLoop

Next ==
    \/ \E l \in {"agent", "api"}, q \in UserQueries : StartRun(l, q)
    \/ Step

Spec == Init /\ [][Next]_vars

\* every step of a run in progress is eventually taken: each provider call
\* returns or raises and each sleep completes
LiveSpec == Spec /\ WF_vars(Step)

(***************************************************************************)
(* agent.py: _call_llm on the shared client, with the clock.  Each thread  *)
(* runs one _call_llm at a time; time.sleep(d) returns no earlier than d   *)
(* after it was called.                                                    *)
(***************************************************************************)

InCall(t) == cpc[t] \in {"waiting", "ready", "calling", "backoff"}

\* retry_delay * (2 ** (attempt - 1)) with the exponent dropped
BackoffDelay_Constant(a) == retry_delay

\* retry_delay * (2 ** (attempt - 1))
BackoffDelay(a) == retry_delay * 2^(a - 1)

\* the retry test written as attempt <= max_retries
MayRetry_OneMore(a) == a <= max_retries

\* if attempt < self.config.max_retries
MayRetry(a) == a < max_retries

\* the keyword arguments of the provider call: groq is passed stop=, gemini's
\* generate_content is passed the prompt text only
ProviderRequest(p) ==
    [stop |-> IF p = "groq" THEN stop_sequences ELSE <<>>, sent |-> TRUE]

\* _call_llm is entered by thread t: the time since the last call is read
\* and, if it is short, the thread goes to sleep for the remainder
CallLlm_Enter(t) ==
    /\ cpc[t] \in {"idle", "returned", "raised"}
    /\ LET time_since_last_call == now - last_api_call
       IN  IF time_since_last_call < min_delay_between_calls
           THEN /\ cpc' = [cpc EXCEPT ![t] = "waiting"]
                /\ wake' = [wake EXCEPT ![t] =
                              now + (min_delay_between_calls - time_since_last_call)]
                /\ cattempt' = [cattempt EXCEPT ![t] = 0]
           ELSE /\ cpc' = [cpc EXCEPT ![t] = "ready"]
                /\ wake' = [wake EXCEPT ![t] = 0]
                /\ cattempt' = [cattempt EXCEPT ![t] = 1]
    /\ cfail' = [cfail EXCEPT ![t] = <<>>]
    /\ cerror' = [cerror EXCEPT ![t] = <<>>]
    /\ request' = [request EXCEPT ![t] = NoRequest]
    /\ made' = [made EXCEPT ![t] = 0]
    /\ sleeps' = [sleeps EXCEPT ![t] = <<>>]
    /\ concurrent' = (concurrent \/ \E u \in Threads \ {t} : InCall(u))
    /\ UNCHANGED <<now, last_api_call, llm_provider, call_log>>
    /\ UNCHANGED <<run_vars, tool_vars>>

\* the rate-limit sleep of thread t returns and the retry loop begins
CallLlm_Wake(t) ==
    /\ cpc[t] = "waiting"
    /\ now >= wake[t]
    /\ cpc' = [cpc EXCEPT ![t] = "ready"]
    /\ cattempt' = [cattempt EXCEPT ![t] = 1]
    /\ wake' = [wake EXCEPT ![t] = 0]
    /\ UNCHANGED <<now, last_api_call, llm_provider, cfail, cerror, request,
                   made, sleeps, call_log, concurrent>>
    /\ UNCHANGED <<run_vars, tool_vars>>

\* CallLlm_Attempt that leaves the timestamp alone on a retry
CallLlm_Attempt_StampFirstOnly(t) ==
    /\ cpc[t] = "ready"
    /\ last_api_call' = (IF cattempt[t] = 1 THEN now ELSE last_api_call)
    /\ request' = [request EXCEPT ![t] = ProviderRequest(llm_provider)]
    /\ made' = [made EXCEPT ![t] = made[t] + 1]
    /\ call_log' = (IF Len(call_log) < 2 THEN call_log ELSE Tail(call_log))
                   \o <<[time |-> now, thread |-> t, attempt |-> cattempt[t]]>>
    /\ cpc' = [cpc EXCEPT ![t] = "calling"]
    /\ UNCHANGED <<now, llm_provider, cattempt, wake, cfail, cerror, sleeps,
                   concurrent>>
    /\ UNCHANGED <<run_vars, tool_vars>>

\* an attempt of thread t: the call time is recorded and the provider called
CallLlm_Attempt(t) ==
    /\ cpc[t] = "ready"
    /\ last_api_call' = now
    /\ request' = [request EXCEPT ![t] = ProviderRequest(llm_provider)]
    /\ made' = [made EXCEPT ![t] = made[t] + 1]
    /\ call_log' = (IF Len(call_log) < 2 THEN call_log ELSE Tail(call_log))
                   \o <<[time |-> now, thread |-> t, attempt |-> cattempt[t]]>>
    /\ cpc' = [cpc EXCEPT ![t] = "calling"]
    /\ UNCHANGED <<now, llm_provider, cattempt, wake, cfail, cerror, sleeps,
                   concurrent>>
    /\ UNCHANGED <<run_vars, tool_vars>>

\* the provider call of thread t returns and so does _call_llm
CallLlm_Return(t) ==
    /\ cpc[t] = "calling"
    /\ cpc' = [cpc EXCEPT ![t] = "returned"]
    /\ UNCHANGED <<now, last_api_call, llm_provider, cattempt, wake, cfail,
                   cerror, request, made, sleeps, call_log, concurrent>>
    /\ UNCHANGED <<run_vars, tool_vars>>

\* the provider call of thread t raises e: the except clause
CallLlm_Fail(t, e) ==
    /\ cpc[t] = "calling"
    /\ cfail' = [cfail EXCEPT ![t] = e]
    /\ IF Classify(e) # "fatal" /\ MayRetry(cattempt[t])
          THEN /\ cpc' = [cpc EXCEPT ![t] = "backoff"]
               /\ sleeps' = [sleeps EXCEPT ![t] =
                                Append(sleeps[t], BackoffDelay(cattempt[t]))]
               /\ wake' = [wake EXCEPT ![t] = now + BackoffDelay(cattempt[t])]
               /\ cerror' = cerror
          ELSE /\ cpc' = [cpc EXCEPT ![t] = "raised"]
               /\ cerror' = [cerror EXCEPT ![t] = RaisedError(e)]
               /\ UNCHANGED <<sleeps, wake>>
    /\ UNCHANGED <<now, last_api_call, llm_provider, cattempt, request, made,
                   call_log, concurrent>>
    /\ UNCHANGED <<run_vars, tool_vars>>

\* the backoff sleep of thread t returns: the next value of the range
CallLlm_Retry(t) ==
    /\ cpc[t] = "backoff"
    /\ now >= wake[t]
    /\ cpc' = [cpc EXCEPT ![t] = "ready"]
    /\ cattempt' = [cattempt EXCEPT ![t] = cattempt[t] + 1]
    /\ wake' = [wake EXCEPT ![t] = 0]
    /\ UNCHANGED <<now, last_api_call, llm_provider, cfail, cerror, request,
                   made, sleeps, call_log, concurrent>>
    /\ UNCHANGED <<run_vars, tool_vars>>

\* time passes
Tick ==
    /\ now + TimeUnit <= MaxTime
    /\ now' = now + TimeUnit
    /\ UNCHANGED <<last_api_call, llm_provider, cpc, cattempt, wake, cfail,
                   cerror, request, made, sleeps, call_log, concurrent>>
    /\ UNCHANGED <<run_vars, tool_vars>>

ClientInit == RunIdle /\ (\E p \in Providers : ClientIdle(p)) /\ ToolIdle

ClientNext ==
    \/ \E t \in Threads : CallLlm_Enter(t)
    \/ \E t \in Threads : CallLlm_Wake(t)
    \/ \E t \in Threads : CallLlm_Attempt(t)
    \/ \E t \in Threads : CallLlm_Return(t)
    \/ \E t \in Threads, e \in Failures : CallLlm_Fail(t, e)
    \/ \E t \in Threads : CallLlm_Retry(t)
    \/ Tick

ClientSpec == ClientInit /\ [][ClientNext]_vars

(***************************************************************************)
(* tools.py and prompts.py: one function called on one argument of a       *)
(* bounded set, on a fresh connection                                      *)
(***************************************************************************)

\* the lexemes queries are spelt freely with, and the longest such query
SqlLexemes == {"SELECT", "5", "FROM", "employees", "LIMIT", ";", " ", "DROP"}
MaxQueryLen == 3

\* the statements the queries are built from, and a few short ones
BaseFromClauses ==
    {<<>>, <<"FROM", "employees">>,
     <<"FROM", "employees", ",", "employees", ",", "employees">>}
QueryBases ==
    {SqlText(p) : p \in SqlExprs \X SqlAliases \X BaseFromClauses \X SqlLimitClauses}
    \cup {CtePrefix \o <<"SELECT", "5", "FROM", CteName>>,
          <<"select", "1">>, <<"select", "5", "limit", "5">>,
          <<"SELECT", "5", "FROM", "employees", "limit", "5">>}
ShortBases ==
    {<<"SELECT", "5">>, <<"select", "1">>, <<"SELECT", "5", "FROM", "employees">>,
     <<"SELECT", "5", "dropped", "FROM", "employees">>}

\* what stands after a statement, what is put into one, what stands for one
Endings ==
    {<<>>, <<";">>, <<" ">>, <<";", ";">>, <<";", " ">>, <<" ", ";">>, <<" ", " ">>}
InsertedLexemes ==
    {"DROP", "drop", "Drop", "dropped", "DELETE", "delete", "EXECUTE", "PRAGMA",
     "limited", "SELECTED"}
OtherStatements ==
    {<<"DROP", "employees">>, <<"DELETE", "FROM", "employees">>,
     <<"INSERT", "5">>, <<"UPDATE", "employees">>, <<"SELECTED", "5">>}

InsertAt(q, i, x) == SubSeq(q, 1, i) \o <<x>> \o SubSeq(q, i + 1, Len(q))

\* the query texts: every text of up to MaxQueryLen lexemes; a statement
\* with an ending; white space before a statement; a lexeme put into a
\* statement at any place; statements that are no SELECT; stacked statements
Queries ==
    UNION {[1..n -> SqlLexemes] : n \in 0..MaxQueryLen}
    \cup {b \o e : b \in QueryBases, e \in Endings}
    \cup {<<" ">> \o b : b \in ShortBases}
    \cup UNION {{InsertAt(b, i, x) : i \in 0..Len(b), x \in InsertedLexemes} :
                    b \in ShortBases}
    \cup OtherStatements
    \cup {b \o <<";">> \o c : b \in ShortBases, c \in ShortBases \cup OtherStatements}

QueryArgs ==
    {[t |-> "str", s |-> q] : q \in Queries} \cup {[t |-> "num", s |-> <<"5">>]}

\* json.dumps(mapping): the members in the order of the dict
RECURSIVE json_dumps(_), JsonItems(_)

JsonItems(mapping) ==
    IF DOMAIN mapping = {} THEN <<>>
    ELSE LET k == CHOOSE k \in DOMAIN mapping : TRUE
             v == mapping[k]
             rest == [j \in DOMAIN mapping \ {k} |-> mapping[j]]
         IN  <<Q>> \o k \o <<Q, ":">>
             \o (CASE v.t = "str" -> <<Q>> \o v.s \o <<Q>>
                   [] v.t = "num" -> v.s
                   [] v.t = "obj" -> json_dumps(v.o))
             \o (IF DOMAIN rest = {} THEN <<>> ELSE <<",">> \o JsonItems(rest))

json_dumps(mapping) == <<"{">> \o JsonItems(mapping) \o <<"}">>

\* 'ACTION: name{json}'
FormatAction(name, mapping) == <<"ACTION:", name>> \o json_dumps(mapping)

\* the parameter mappings: up to two keys; values that are numbers, strings
\* of up to MaxStringLen lexemes, braces among them, or one nested object
MaxStringLen == 2
ParamKeys == {<<"a">>, <<"b">>}
StringLexemes == {"txt", "{", "}"}
StringValues ==
    {[t |-> "str", s |-> x] :
        x \in UNION {[1..n -> StringLexemes] : n \in 0..MaxStringLen}}
ScalarValues == StringValues \cup {[t |-> "num", s |-> <<n>>] : n \in NumberLexemes}
FlatMappings == UNION {[K -> ScalarValues] : K \in SUBSET ParamKeys}
NestedMappings ==
    {(<<"a">> :> [t |-> "obj", o |-> m]) :
        m \in {f \in FlatMappings : Cardinality(DOMAIN f) <= 1}}
Mappings == FlatMappings \cup NestedMappings

\* tool names matching [A-Za-z_]\w*, and what stands before the action
ToolNameLexemes == {"list_tables", "_f1"}
Preambles == {<<>>, <<"THOUGHT:", "txt">>}

\* the formatted messages, each with what it was formatted from
FormattedArgs ==
    {[t |-> "formatted", name |-> n, mapping |-> m,
      s |-> pre \o FormatAction(n, m)] :
        n \in ToolNameLexemes, m \in Mappings, pre \in Preambles}

\* the responses the parser is given: every text of up to MaxTextLen lexemes
ParserLexemes == {"ACTION:", "f", "{", "}", "txt"}
MaxTextLen == 5
ParserArgs ==
    {[t |-> "text", s |-> x] :
        x \in UNION {[1..n -> ParserLexemes] : n \in 0..MaxTextLen}}
    \cup {[t |-> "text", s |-> x] :
            x \in {<<"action:", "f", "{", "}">>,
                   <<"ACTION:", "f", "{", Q, "a", Q, ":", "5", "}">>,
                   <<"ACTION:", "f", "{", Q, "a", Q, ":", "5", "}", "}">>,
                   <<"ACTION:", "f", "{", Q, "a", Q, "5", "}">>}}

\* the responses the final-answer functions are given
AnswerLexemes ==
    {"THOUGHT:", "txt", "FINAL ANSWER:", "final answer:", "Final Answer:",
     "(fi)nal answer:"}
MaxAnswerLen == 4
AnswerArgs ==
    {[t |-> "text", s |-> x] :
        x \in UNION {[1..n -> AnswerLexemes] : n \in 0..MaxAnswerLen}}

\* what a call leaves: the function, its argument, what it returned, what
\* the connection was asked
Called(f, arg, returned, log) ==
    /\ tool_query = NoQuery
    /\ tool_called' = f
    /\ tool_calls' = 1
    /\ tool_query' = arg
    /\ tool_result' = returned
    /\ db_log' = log
    /\ UNCHANGED <<run_vars, client_vars>>

\* query_database(db_conn, query) is called on a fresh connection and returns
CallQueryDatabase(query) ==
    LET r == query_database(query)
    IN  Called("query_database", query, r.text, r.log)

\* validate_sql_query(query, db_conn) is called and returns (is_valid, msg)
CallValidateSqlQuery(query) ==
    LET v == validate_sql_query(query.s)
    IN  Called("validate_sql_query", query, [valid |-> v.valid, msg |-> v.msg], v.log)

\* add_limit_if_missing(query) is called
CallAddLimit(query) ==
    Called("add_limit_if_missing", query, add_limit_if_missing(query.s), <<>>)

\* add_limit_if_missing is called on what it returned
CallAddLimitAgain ==
    /\ tool_called = "add_limit_if_missing"
    /\ tool_calls = 1
    /\ tool_calls' = 2
    /\ tool_result' = add_limit_if_missing(tool_result)
    /\ UNCHANGED <<tool_called, tool_query, db_log, run_vars, client_vars>>

\* the table names describe_table is given, and one that is no string
TableNameArgs ==
    {[t |-> "str", s |-> n] :
        n \in {<<"employees">>, <<"departments">>, <<"ghosts">>, <<"_f1">>,
               <<"employees\n">>, <<"ghosts\n">>, <<>>, <<"5">>, <<"COUNT(*)">>,
               <<"bad", "name">>, <<"employees", " ">>, <<" ", "employees">>,
               <<"employees", ";", "DROP", "employees">>, <<";">>, <<"(">>}}
    \cup {[t |-> "num", s |-> <<"5">>]}

\* describe_table(db_conn, table_name) is called on a fresh connection and
\* returns or raises
CallDescribeTable(arg) ==
    LET r == describe_table(arg)
    IN  Called("describe_table", arg, [raised |-> r.raised, text |-> r.text], r.log)

\* extract_action_from_response(response) is called
CallExtractAction(arg) ==
    Called("extract_action_from_response", arg,
           extract_action_from_response(arg.s), <<>>)

\* has_final_answer(response) and extract_final_answer(response) are called
CallFinalAnswer(arg) ==
    Called("final_answer", arg,
           [has |-> has_final_answer(arg.s), answer |-> extract_final_answer(arg.s)],
           <<>>)

\* a call is made on a fresh connection; add_limit_if_missing may then be
\* applied once more
ToolNext ==
    \/ /\ tool_called = "none"
       /\ \/ \E query \in QueryArgs : CallQueryDatabase(query)
          \/ \E query \in QueryArgs : query.t = "str" /\ CallValidateSqlQuery(query)
          \/ \E query \in QueryArgs : query.t = "str" /\ CallAddLimit(query)
          \/ \E arg \in TableNameArgs : CallDescribeTable(arg)
          \/ \E arg \in FormattedArgs \cup ParserArgs : CallExtractAction(arg)
          \/ \E arg \in AnswerArgs : CallFinalAnswer(arg)
    \/ CallAddLimitAgain

ToolSpec == Init /\ [][ToolNext]_vars

(***************************************************************************)
(* Properties                                                              *)
(***************************************************************************)

\* the run is inside a loop pass
InBody == pc \in {"attempt", "backoff", "raised", "returned", "check",
                  "dispatch", "observe"}

\* a loop pass has ended and no later one has begun
PassEnded == llm_calls >= 1 /\ pc \in {"call", "after_loop", "done"}

\* what the latest pass added to the history
Growth == Len(history) - len_at_start

AssistantIndexes(h) == {i \in DOMAIN h : h[i].role = "assistant"}

NoFinalInHistory ==
    \A i \in AssistantIndexes(history) : ~has_final_answer(history[i].content)

Observation(l, a) ==
    IF l = "agent" THEN AgentObservation(a.name, a.params)
    ELSE ApiObservation(a.name, a.params)

\* C1: every run that was started eventually returns (final answer, error
\* result or max-iterations result), given that every provider call returns
\* or raises and every sleep ends (the fairness of LiveSpec).
C1_RunReturns == (pc \notin {"idle", "done"}) ~> (pc = "done")

\* C1 witness: a run returned after a last pass that needed every retry
C1_Witness ==
    /\ pc = "done"
    /\ outcome = "final"
    /\ llm_calls = max_iterations
    /\ attempt = max_retries

\* C2: the iteration counter is 1 in the first pass and one more in each
\* later pass (it equals the number of _call_llm invocations so far), it
\* never exceeds max_iterations, and neither does the number of _call_llm
\* invocations of the run.
C2_IterationCounter ==
    /\ pc # "idle" => /\ iteration \in 1..max_iterations
                      /\ llm_calls <= max_iterations
    /\ pc = "call" => iteration = llm_calls + 1
    /\ (InBody \/ pc \in {"after_loop", "done"}) => iteration = llm_calls

\* C2 witness: the last permitted pass is under way
C2_Witness ==
    /\ pc = "attempt"
    /\ iteration = max_iterations
    /\ llm_calls = max_iterations

\* C3: a run whose responses never held a final-answer marker and whose
\* _call_llm never raised made exactly max_iterations passes and returned
\* the max-iterations outcome: run's string names the bound and ends with
\* the last raw response; the request layer's envelope has status
\* max_iterations, iterations = the bound, and the last raw response in its
\* last step.
C3_MaxIterations ==
    (pc = "done" /\ error = <<>> /\ NoFinalInHistory) =>
        /\ outcome = "max_iterations"
        /\ llm_calls = max_iterations
        /\ Cardinality(AssistantIndexes(history)) = max_iterations
        /\ \E i \in AssistantIndexes(history) :
              /\ \A j \in AssistantIndexes(history) : j <= i
              /\ history[i].content = response
        /\ layer = "agent" =>
              /\ Len(result) >= 3
              /\ result[1] = "Agent stopped: Reached maximum iterations"
              /\ result[2] = ToString(max_iterations)
              /\ SubSeq(result, 4, Len(result)) = response
        /\ layer = "api" =>
              /\ envelope.status = "max_iterations"
              /\ envelope.iterations = max_iterations
              /\ Len(envelope.steps) = max_iterations
              /\ envelope.steps[max_iterations].raw_llm_response = response

\* C3 witness: run returned after max_iterations responses none of which
\* held a valid action or a final answer
C3_Witness ==
    /\ pc = "done"
    /\ layer = "agent"
    /\ outcome = "max_iterations"
    /\ \A i \in AssistantIndexes(history) :
          ~extract_action_from_response(history[i].content).found

\* C4: when _call_llm raises, the run returns an error result at once: the
\* pass appended no message and dispatched no tool, the failed provider
\* call was the last one, and a run that ended otherwise ended with a final
\* answer or after max_iterations passes.
C4_LlmFailureEndsRun ==
    /\ (pc = "done" /\ outcome = "error") =>
          /\ Growth = 0
          /\ dispatched = 0
          /\ sent = history
          /\ layer = "agent" => result = <<"Error:", "LLM call failed:">> \o error
          /\ layer = "api" => envelope.status = "error"
    /\ (pc = "done" /\ outcome # "error") =>
          outcome = "final" \/ llm_calls = max_iterations

\* C5: the status of the envelope tells the three outcomes apart.
C5_StatusDiscriminates ==
    (pc = "done" /\ layer = "api") =>
        /\ envelope.status = "success" <=> outcome = "final"
        /\ envelope.status = "max_iterations" <=> outcome = "max_iterations"
        /\ envelope.status = "error" <=> outcome = "error"

\* C6 as stated: every loop pass adds one or two messages to the history.
C6_GrowthEveryIteration == PassEnded => Growth \in {1, 2}

\* C6 as amended: a pass never adds more than two messages; a pass whose
\* _call_llm returned adds one or two, first the assistant message holding
\* the raw response, then at most one user message; the pass whose
\* _call_llm raised adds none.
C6_GrowthWhenLlmReturns ==
    /\ pc # "idle" => Growth \in 0..2
    /\ (PassEnded /\ outcome # "error") =>
          /\ Growth \in {1, 2}
          /\ history[len_at_start + 1] = Message("assistant", response)
          /\ Growth = 2 => history[len_at_start + 2].role = "user"
    /\ (PassEnded /\ outcome = "error") => Growth = 0

\* C6 witness: a pass of run ended having added two messages
C6_Witness ==
    /\ pc = "call"
    /\ layer = "agent"
    /\ llm_calls >= 1
    /\ Growth = 2

\* C7 (state part): once _call_llm has returned and the response is being
\* checked, parsed or acted on, it is already in the history as the
\* assistant message of this pass.
C7_ResponseAppendedFirst ==
    /\ pc \in {"check", "dispatch", "observe"} =>
          /\ len_at_start + 1 \in DOMAIN history
          /\ history[len_at_start + 1] = Message("assistant", response)
    /\ pc = "check" => Len(history) = len_at_start + 1

\* C7: the history of a run starts as [system prompt, user query] and only
\* grows at its end; what each provider call receives is the history, which
\* extends what the previous call of the run received; the raw response is
\* appended before it is checked or parsed.
C7_HistoryAppendOnly ==
    /\ []C7_ResponseAppendedFirst
    /\ [][IF pc \in {"idle", "done"}
          THEN history' = <<Message("system", system_prompt),
                            Message("user", user_query')>>
          ELSE /\ IsPrefix(history, history')
               /\ IsPrefix(sent, sent')
               /\ (pc = "attempt") => sent' = history]_vars

\* C7 witness: a later provider call received the history grown by two
\* messages per earlier pass
C7_Witness ==
    /\ pc = "returned"
    /\ llm_calls >= 2
    /\ Len(sent) = 2 + 2 * (llm_calls - 1)

\* C8: a response with the final-answer marker ends the run in its own
\* pass with the extracted answer: it is the last message of the history,
\* nothing is dispatched for it, and no provider call ever receives it.
C8_FinalAnswerEndsRun ==
    /\ (pc = "done" /\ outcome = "final") =>
          /\ has_final_answer(response)
          /\ history[Len(history)] = Message("assistant", response)
          /\ Growth = 1
          /\ dispatched = 0
          /\ layer = "agent" => result = extract_final_answer(response)
          /\ layer = "api" =>
                /\ envelope.final_answer = extract_final_answer(response)
                /\ envelope.status = "success"
    /\ pc \in {"dispatch", "observe"} => ~has_final_answer(response)
    /\ \A i \in AssistantIndexes(history) :
          has_final_answer(history[i].content) =>
              i = Len(history) /\ pc \in {"check", "done"}
    /\ \A i \in AssistantIndexes(sent) : ~has_final_answer(sent[i].content)

\* C8 witness: the run returned the final answer of a response that also
\* held a well-formed ACTION
C8_Witness ==
    /\ pc = "done"
    /\ outcome = "final"
    /\ extract_action_from_response(response).found

\* C9: after a pass whose response had neither a final-answer marker nor a
\* parseable action, the history ends with the assistant message and one
\* corrective user message, and nothing was dispatched.
C9_ParseFailureCorrective ==
    (/\ pc \in {"call", "after_loop"}
     /\ llm_calls >= 1
     /\ outcome = "none"
     /\ ~has_final_answer(response)
     /\ ~extract_action_from_response(response).found) =>
        /\ Growth = 2
        /\ history[Len(history)] = Message("user", Corrective)
        /\ dispatched = 0

\* C10: a pass that parsed an action made exactly one dispatch, and the
\* history then ends with the assistant message that asked for it followed
\* by the user message "OBSERVATION: " + result; that is what the next
\* provider call receives.
C10_ObservationInjected ==
    /\ (/\ pc \in {"call", "after_loop"}
        /\ llm_calls >= 1
        /\ outcome = "none"
        /\ ~has_final_answer(response)
        /\ extract_action_from_response(response).found) =>
           /\ dispatched = 1
           /\ Growth = 2
           /\ observation = Observation(layer, extract_action_from_response(response))
           /\ history[Len(history) - 1] = Message("assistant", response)
           /\ history[Len(history)] =
                  Message("user", <<"OBSERVATION:">> \o observation)
    /\ pc = "dispatch" => dispatched = 0
    /\ pc = "observe" => dispatched = 1
    /\ (pc \in {"backoff", "raised"} /\ llm_calls >= 2 /\ action.found) =>
           sent[Len(sent)] = Message("user", <<"OBSERVATION:">> \o observation)

\* C10 witness: a pass dispatched describe_table and ended
C10_Witness ==
    /\ pc = "call"
    /\ llm_calls >= 1
    /\ action.found
    /\ action.name = "describe_table"
    /\ dispatched = 1
\* C11: a dispatch always yields a textual observation (for an unknown tool
\* one that lists the available tools), which is appended to the history,
\* and the loop goes on to its next pass
C11_ToolFailureObserved ==
    /\ pc = "observe" =>
           /\ observation # <<>>
           /\ (\A i \in DOMAIN ToolNames : ToolNames[i] # action.name) =>
                  /\ \E j \in DOMAIN observation : observation[j] = "Unknown tool:"
                  /\ \A i \in DOMAIN ToolNames :
                         \E j \in DOMAIN observation : observation[j] = ToolNames[i]
    /\ (PassEnded /\ dispatched = 1) =>
           /\ history[Len(history)] =
                  Message("user", <<"OBSERVATION:">> \o observation)
           /\ pc \in {"call", "after_loop", "done"}

(***************************************************************************)
(* Properties of _call_llm on the shared client (ClientSpec)               *)
(***************************************************************************)

\* the time between the latest two provider attempts
LatestGap == call_log[2].time - call_log[1].time

IsFatal(e) == HasKeyword(e, FatalKeywords)
IsThrottling(e) == ~IsFatal(e) /\ HasKeyword(e, ThrottleKeywords)
IsUnclassified(e) == ~IsFatal(e) /\ ~HasKeyword(e, ThrottleKeywords)

\* C12: on a client used by one _call_llm at a time, any two successive
\* provider attempts (retries included, across calls) are at least
\* min_delay_between_calls apart
C12_SequentialMinGap ==
    (~concurrent /\ Len(call_log) = 2)
        => LatestGap >= min_delay_between_calls

\* C13: with two threads sharing the client, an attempt that has just passed
\* the rate-limit wait is at least min_delay_between_calls after the other
\* thread's latest attempt
C13_ConcurrentMinGap ==
    ( /\ Len(call_log) = 2
      /\ call_log[2].attempt = 1
      /\ call_log[1].thread # call_log[2].thread )
        => LatestGap >= min_delay_between_calls

\* C14: the backoff sleep before attempt k, 2 <= k <= max_retries, is
\* retry_delay * 2^(k-2), after a throttling and after an unclassified
\* failure alike, and attempt k is made only after that sleep
C14_BackoffSchedule ==
    \A t \in Threads :
        /\ \A k \in 2..max_retries :
               Len(sleeps[t]) >= k - 1 => sleeps[t][k - 1] = retry_delay * 2^(k - 2)
        /\ cpc[t] \in {"ready", "calling"} => Len(sleeps[t]) = cattempt[t] - 1
        /\ cpc[t] = "backoff" =>
               /\ Len(sleeps[t]) = cattempt[t]
               /\ wake[t] <= now + sleeps[t][cattempt[t]]

C14_Witness ==
    \E t \in Threads :
        /\ cpc[t] = "calling"
        /\ cattempt[t] = 3
        /\ sleeps[t] = <<retry_delay, 2 * retry_delay>>
        /\ IsThrottling(cfail[t])

\* C15: one _call_llm makes at most max_retries provider attempts; raising on
\* a non-fatal failure it has made exactly max_retries, with a backoff sleep
\* between attempts only
C15_AttemptsBounded ==
    \A t \in Threads :
        /\ made[t] <= max_retries
        /\ Len(sleeps[t]) <= max_retries - 1
        /\ (cpc[t] = "raised" /\ ~IsFatal(cfail[t])) =>
               /\ made[t] = max_retries
               /\ Len(sleeps[t]) = max_retries - 1

C15_Witness ==
    \E t \in Threads :
        /\ cpc[t] = "raised"
        /\ IsThrottling(cfail[t])
        /\ made[t] = max_retries
        /\ Len(sleeps[t]) = max_retries - 1

\* C16: a fatal quota failure ends _call_llm on the attempt that met it, with
\* the daily-limit error and no sleep after it
C16_FatalRaisesAtOnce ==
    \A t \in Threads :
        (cfail[t] # <<>> /\ IsFatal(cfail[t])) =>
            /\ cpc[t] = "raised"
            /\ cerror[t] = <<"DAILY TOKEN LIMIT REACHED!", "Original error:">> \o cfail[t]
            /\ Len(sleeps[t]) = made[t] - 1

C16_Witness ==
    \E t \in Threads :
        /\ cpc[t] = "raised"
        /\ IsFatal(cfail[t])
        /\ HasKeyword(cfail[t], ThrottleKeywords)
        /\ made[t] = 2
        /\ made[t] < max_retries

C18_TimestampIsLatestAttempt ==
    /\ last_api_call <= now
    /\ call_log = <<>> => last_api_call = 0
    /\ call_log # <<>> => last_api_call = call_log[Len(call_log)].time
    /\ \A t \in Threads : made[t] > 0 => last_api_call >= StartTime

\* C18: the timestamp is written on every attempt, with the current time,
\* and it never decreases
C18_TimestampOnEveryAttempt ==
    /\ []C18_TimestampIsLatestAttempt
    /\ [][ /\ last_api_call' >= last_api_call
           /\ \A t \in Threads :
                  made'[t] = made[t] + 1 => last_api_call' = now ]_vars

C18_Witness ==
    \E t \in Threads :
        /\ cpc[t] = "raised"
        /\ made[t] = max_retries
        /\ Len(call_log) = 2
        /\ call_log[2].thread = t
        /\ call_log[2].attempt = max_retries
        /\ last_api_call = call_log[2].time
        /\ last_api_call > call_log[1].time

\* C19: every provider call is passed the stop sequences of the
\* configuration, the observation marker among them
C19_StopSequencesPassed ==
    \A t \in Threads :
        request[t].sent =>
            /\ request[t].stop = stop_sequences
            /\ \E i \in DOMAIN request[t].stop : request[t].stop[i] = "OBSERVATION:"

(***************************************************************************)
(* Properties of the validator, the row cap and the result text (ToolSpec) *)
(***************************************************************************)

ValidatorCalled == tool_called = "validate_sql_query"
QueryDatabaseCalled == tool_called = "query_database" /\ tool_query.t = "str"

\* the trimmed, upper-cased text of the query called with
TrimmedUpper ==
    LET trimmed == Strip(tool_query.s)
    IN  [i \in DOMAIN trimmed |-> Upper(trimmed[i])]

\* the text starts with SELECT or with WITH
StartsAsQuery ==
    /\ TrimmedUpper # <<>>
    /\ \E w \in {"SELECT", "WITH"} : Within(TrimmedUpper[1], w)

\* C21: the validator accepts a query only if its trimmed, upper-cased text
\* starts with SELECT or WITH, and rejects every other query with the
\* message of its first layer; 'SELECT 1' and a WITH common table expression
\* over SELECT are accepted
C21_OnlySelectOrWith ==
    ValidatorCalled =>
        /\ tool_result.valid => StartsAsQuery
        /\ ~StartsAsQuery =>
               /\ ~tool_result.valid
               /\ tool_result.msg =
                      <<"Only SELECT queries (including WITH/CTEs) are allowed.">>
        /\ tool_query.s \in {<<"SELECT", "1">>,
                             CtePrefix \o <<"SELECT", "5", "FROM", CteName>>} =>
               tool_result.valid

\* C21 witness: a DELETE statement was rejected by the first layer
C21_Witness ==
    /\ ValidatorCalled
    /\ tool_query.s = <<"DELETE", "FROM", "employees">>
    /\ tool_result = [valid |-> FALSE,
                      msg |-> <<"Only SELECT queries (including WITH/CTEs) are allowed.">>]

\* the trimmed text with at most one trailing terminator removed
OneTerminatorRemoved ==
    LET trimmed == Strip(tool_query.s)
    IN  IF trimmed # <<>> /\ trimmed[Len(trimmed)] = ";"
        THEN SubSeq(trimmed, 1, Len(trimmed) - 1)
        ELSE trimmed

\* C22: the validator accepts a query only if, after removing at most one
\* trailing terminator from the trimmed text, no terminator remains in it
C22_SingleStatement ==
    (ValidatorCalled /\ tool_result.valid) =>
        \A i \in DOMAIN OneTerminatorRemoved : OneTerminatorRemoved[i] # ";"

\* C22 witness: a statement with two trailing terminators was rejected, by
\* the dry run
C22_Witness ==
    /\ ValidatorCalled
    /\ tool_query.s = <<"SELECT", "5", ";", ";">>
    /\ tool_result = [valid |-> FALSE,
                      msg |-> <<"Invalid SQL syntax:",
                                "You can only execute one statement at a time.">>]

\* the blacklisted keywords that are whole words of the query, in any case
KeywordsAsWords ==
    {k \in DangerousKeywords : \E i \in DOMAIN tool_query.s : Upper(tool_query.s[i]) = k}

\* C23: a query holding a blacklisted keyword as a whole word, at any
\* position and in any letter case, is rejected; the third layer rejects no
\* query in which such keywords occur only as proper parts of longer words
C23_KeywordBlacklist ==
    ValidatorCalled =>
        /\ KeywordsAsWords # {} => ~tool_result.valid
        /\ (/\ ~tool_result.valid
            /\ Len(tool_result.msg) = 3
            /\ tool_result.msg[1] = "Dangerous keyword") =>
               tool_result.msg[2] \in KeywordsAsWords

\* C23 witness: a keyword in mixed case inside a SELECT was rejected by the
\* third layer
C23_Witness ==
    /\ ValidatorCalled
    /\ tool_query.s = <<"SELECT", "5", "Drop", "FROM", "employees">>
    /\ tool_result = [valid |-> FALSE,
                      msg |-> <<"Dangerous keyword", "DROP", "detected.">>]

\* C24: add_limit_if_missing applied to what it returned returns the same
C24_AddLimitIdempotent ==
    [][(tool_called = "add_limit_if_missing" /\ tool_calls' = 2) =>
           tool_result' = tool_result]_vars

\* C24 witness: a query with white space and a terminator at its end was
\* capped, and capped again
C24_Witness ==
    /\ tool_called = "add_limit_if_missing"
    /\ tool_calls = 2
    /\ tool_query.s = <<"SELECT", "5", " ", ";">>
    /\ tool_result = <<"SELECT", "5", "LIMIT", "100">>

\* the positions in the log of the connection where a statement was run
Executions == {i \in DOMAIN db_log : db_log[i].op = "execute"}

\* the query has a limit clause of its own: the word LIMIT, in any case
HasLimitClause == \E i \in DOMAIN tool_query.s : Upper(tool_query.s[i]) = "LIMIT"

\* C25: an accepted query without a limit clause of its own is executed with
\* LIMIT 100 appended and returns at most 100 rows
C25_RowCap ==
    (/\ QueryDatabaseCalled
     /\ validate_sql_query(tool_query.s).valid
     /\ ~HasLimitClause) =>
        \A i \in Executions :
            LET stmt == db_log[i].stmt
            IN  /\ Len(stmt) >= 2
                /\ SubSeq(stmt, Len(stmt) - 1, Len(stmt)) = <<"LIMIT", "100">>
                /\ Len(sqlite_execute(stmt).rows) <= 100

\* the result of the statement query_database executed
Executed == sqlite_execute(db_log[Min(Executions)].stmt)

\* C26: for n >= 1 rows the text reports n, holds min(20, n) rows, and ends
\* with the note of n - 20 more rows exactly when n > 20; for no rows it is
\* the 'returned no results' message
C26_ResultText ==
    (QueryDatabaseCalled /\ Executions # {} /\ Executed.ok) =>
        LET n == Len(Executed.rows)
            shown == IF n < 20 THEN n ELSE 20
            note == IF n > 20
                    THEN <<"...", ToString(n - 20), "more rows not shown">>
                    ELSE <<>>
        IN  IF n = 0
            THEN tool_result = <<"Query executed successfully but returned no results.">>
            ELSE tool_result =
                     <<"Query returned", ToString(n), "row(s):", "">>
                     \o Executed.cols \o <<"---">>
                     \o SubSeq(Executed.rows, 1, shown) \o note

\* C26 witness: 21 rows were returned, 20 are shown and the note counts one
C26_Witness ==
    /\ QueryDatabaseCalled
    /\ Executions # {}
    /\ Len(Executed.rows) = 21
    /\ Len(tool_result) = 29
    /\ SubSeq(tool_result, 27, 29) = <<"...", "1", "more rows not shown">>

\* C20: query_database runs a statement only after the validator accepted
\* the query (its dry run precedes the run); a rejected query runs nothing
\* and the tool returns 'Query validation failed: <reason>'
C20_ExecuteOnlyAfterValidation ==
    QueryDatabaseCalled =>
        LET v == validate_sql_query(tool_query.s)
        IN  /\ \A i \in Executions :
                   /\ v.valid
                   /\ \E j \in 1..(i - 1) : db_log[j] = DbOp("explain", tool_query.s)
            /\ ~v.valid =>
                   /\ Executions = {}
                   /\ tool_result = <<"Query validation failed:">> \o v.msg

C20_Witness ==
    /\ QueryDatabaseCalled
    /\ validate_sql_query(tool_query.s).valid
    /\ db_log = <<DbOp("explain", tool_query.s),
                  DbOp("execute", tool_query.s \o <<"LIMIT", "100">>)>>
    /\ tool_result = <<"Query returned", "1", "row(s):", "", "COUNT(*)", "---", "8">>

(***************************************************************************)
(* Properties of the parser of model output (ToolSpec)                     *)
(***************************************************************************)

ParserCalled == tool_called = "extract_action_from_response"

\* C27: parsing 'ACTION: name{json}' gives back the name and the mapping it
\* was formatted from
C27_ParserRoundTrip ==
    (ParserCalled /\ tool_query.t = "formatted") =>
        tool_result = [found |-> TRUE, name |-> tool_query.name,
                       params |-> tool_query.mapping]

\* the places of the response called with: the markers, the first marker
\* with a tool name, the braces after that name
ActionMarkers == {i \in DOMAIN tool_query.s : tool_query.s[i] = "ACTION:"}
NamedMarkers ==
    {i \in ActionMarkers : i < Len(tool_query.s) /\ IsWord(tool_query.s[i + 1])}
NamePos == Min(NamedMarkers) + 1
OpeningBraces == {j \in (NamePos + 1)..Len(tool_query.s) : tool_query.s[j] = "{"}
Depth(j) ==
    Cardinality({k \in Min(OpeningBraces)..j : tool_query.s[k] = "{"})
    - Cardinality({k \in Min(OpeningBraces)..j : tool_query.s[k] = "}"})
ClosingBraces == {j \in Min(OpeningBraces)..Len(tool_query.s) : Depth(j) = 0}
CapturedSpan == SubSeq(tool_query.s, Min(OpeningBraces), Min(ClosingBraces))

\* C28: the parser returns no action when there is no marker, when no
\* opening brace follows the tool name, when that brace is never closed, or
\* when the captured span is no well-formed object; it returns a value in
\* every case; the span '{}' gives the tool name and the empty mapping
C28_NoActionCases ==
    ParserCalled =>
        /\ tool_result.found \in BOOLEAN
        /\ ~tool_result.found => tool_result = NoAction
        /\ ActionMarkers = {} => tool_result = NoAction
        /\ NamedMarkers = {} => tool_result = NoAction
        /\ NamedMarkers # {} =>
               /\ OpeningBraces = {} => tool_result = NoAction
               /\ OpeningBraces # {} =>
                      /\ ClosingBraces = {} => tool_result = NoAction
                      /\ ClosingBraces # {} =>
                             /\ ~json_loads(CapturedSpan).ok => tool_result = NoAction
                             /\ CapturedSpan = <<"{", "}">> =>
                                    tool_result = [found |-> TRUE,
                                                   name |-> tool_query.s[NamePos],
                                                   params |-> <<>>]

\* C28 witness: a span that is no object gave no action
C28_Witness ==
    /\ ParserCalled
    /\ tool_query.s = <<"ACTION:", "f", "{", "txt", "}">>
    /\ tool_result = NoAction

\* the markers of a final answer in the response called with, in any case
AnswerMarkers ==
    {i \in DOMAIN tool_query.s : Upper(tool_query.s[i]) = "FINAL ANSWER:"}

\* C29: has_final_answer is true exactly when the response holds the marker
\* in some letter case, and then extract_final_answer returns the text after
\* the first marker
C29_FinalAnswer ==
    tool_called = "final_answer" =>
        /\ tool_result.has <=> AnswerMarkers # {}
        /\ tool_result.has =>
               tool_result.answer =
                   SubSeq(tool_query.s, Min(AnswerMarkers) + 1, Len(tool_query.s))

(***************************************************************************)
(* Properties of the loop on a missing table (Spec)                        *)
(***************************************************************************)

\* the parsed action is describe_table with the name of a table that does
\* not exist
MissingTable ==
    /\ action.found
    /\ action.name = "describe_table"
    /\ DOMAIN action.params = {<<"table_name">>}
    /\ action.params[<<"table_name">>].t = "str"
    /\ IsIdentifier(action.params[<<"table_name">>].s)
    /\ action.params[<<"table_name">>].s[1] \notin Tables

DoesNotExist ==
    <<"Error: Table">> \o action.params[<<"table_name">>].s \o <<"does not exist.">>

\* C30: describe_table on a missing table returns the 'does not exist' text
\* and raises nothing; the loop appends it to the history as an observation
\* and goes on to its next pass
C30_MissingTableObserved ==
    /\ []((pc = "observe" /\ MissingTable) => observation = DoesNotExist)
    /\ [][(pc = "observe" /\ MissingTable) =>
              /\ history' = Append(history,
                                   Message("user", <<"OBSERVATION:">> \o DoesNotExist))
              /\ outcome' = "none"
              /\ iteration < max_iterations =>
                     (pc' = "call" /\ iteration' = iteration + 1)]_vars

\* C30 witness: the pass that described a missing table ended and the next
\* one is about to call the model
C30_Witness ==
    /\ pc = "call"
    /\ llm_calls >= 1
    /\ dispatched = 1
    /\ MissingTable
    /\ history[Len(history)] = Message("user", <<"OBSERVATION:">> \o DoesNotExist)

(***************************************************************************)
(* Properties of describe_table and of the validator's layers (ToolSpec)   *)
(***************************************************************************)

DescribeTableCalled == tool_called = "describe_table" /\ tool_query.t = "str"

\* C31: a table name that is not made of letters, digits and underscores
\* (the first no digit) is refused before any database access, and
\* describe_table returns the text of that error
C31_OnlyIdentifiersReachDatabase ==
    (DescribeTableCalled /\ ~IsPlainIdentifier(tool_query.s)) =>
        /\ db_log = <<>>
        /\ tool_result = [raised |-> FALSE,
                          text |-> <<"Error:", "Invalid identifier">> \o tool_query.s]

\* the layers of the validator that the query called with fails
FailsPrefix == ~StartsAsQuery
FailsSingleStatement ==
    LET kept == RStrip(RStripSemicolons(Strip(tool_query.s)))
    IN  \E i \in DOMAIN kept : kept[i] = ";"
FailsKeywords == KeywordsAsWords # {}

\* C34: the reason the validator returns is that of the first failing layer
\* in the order prefix, single statement, keywords, dry run; the connection
\* is asked for the dry run only when the first three layers pass
C34_LayersInOrder ==
    ValidatorCalled =>
        IF FailsPrefix
            THEN /\ tool_result.msg =
                        <<"Only SELECT queries (including WITH/CTEs) are allowed.">>
                 /\ db_log = <<>>
        ELSE IF FailsSingleStatement
            THEN /\ tool_result.msg = <<"Multiple statements not allowed.">>
                 /\ db_log = <<>>
        ELSE IF FailsKeywords
            THEN /\ tool_result.msg[1] = "Dangerous keyword"
                 /\ db_log = <<>>
        ELSE /\ db_log = <<DbOp("explain", tool_query.s)>>
             /\ \/ tool_result.valid
                \/ tool_result.msg[1] = "Invalid SQL syntax:"

\* C34 witness: a query that fails the second, the third and the fourth
\* layer was rejected for the second, and the connection was not asked
C34_Witness ==
    /\ ValidatorCalled
    /\ tool_query.s = <<"SELECT", "5", ";", "DROP", "employees">>
    /\ tool_result = [valid |-> FALSE, msg |-> <<"Multiple statements not allowed.">>]
    /\ db_log = <<>>

\* C38: the text query_database executes for an accepted query holds no
\* terminator that is followed by further text
C38_ExecutedSingleStatement ==
    (QueryDatabaseCalled /\ validate_sql_query(tool_query.s).valid) =>
        \A i \in Executions :
            LET stmt == db_log[i].stmt
            IN  \A j \in DOMAIN stmt :
                    stmt[j] = ";" =>
                        \A k \in (j + 1)..Len(stmt) : stmt[k] \in {";", " "}

(***************************************************************************)
(* Properties of the failure classes of _call_llm (ClientSpec)             *)
(***************************************************************************)

\* C35: a failure with a fatal and a throttling signal ends _call_llm on the
\* attempt that met it, with the daily-limit error; a failure with
\* throttling signals only is never the end of a call that has attempts left
C35_FatalBeforeThrottling ==
    \A t \in Threads :
        /\ (HasKeyword(cfail[t], FatalKeywords)
            /\ HasKeyword(cfail[t], ThrottleKeywords)) =>
               /\ cpc[t] = "raised"
               /\ cerror[t] =
                      <<"DAILY TOKEN LIMIT REACHED!", "Original error:">> \o cfail[t]
               /\ Len(sleeps[t]) = made[t] - 1
        /\ (/\ HasKeyword(cfail[t], ThrottleKeywords)
            /\ ~HasKeyword(cfail[t], FatalKeywords)
            /\ made[t] < max_retries) =>
               cpc[t] # "raised"

\* C35 witness: the first attempt of a call met a failure with both signals
\* and the call raised at once
C35_Witness ==
    \E t \in Threads :
        /\ cpc[t] = "raised"
        /\ cfail[t] = <<"quota exceeded", "too many requests">>
        /\ made[t] = 1
        /\ sleeps[t] = <<>>

(***************************************************************************)
(* Properties of the trace, the runs of one agent, the roles, the two      *)
(* loops and the connection (Spec)                                         *)
(***************************************************************************)

\* the responses of the run, in order: the assistant messages of the history
Assistants == SelectSeq(history, LAMBDA m : m.role = "assistant")

\* the run got tool actions from the model and then a final answer
ActionsThenFinal ==
    /\ pc = "done"
    /\ Assistants # <<>>
    /\ has_final_answer(Assistants[Len(Assistants)].content)
    /\ \A i \in 1..(Len(Assistants) - 1) :
           /\ ~has_final_answer(Assistants[i].content)
           /\ extract_action_from_response(Assistants[i].content).found

\* C32: in the request layer, k tool actions and then a final answer give k
\* REACT_CYCLE records with iterations 1..k, then one FINAL_ANSWER record,
\* and an envelope with status success and iterations k + 1
C32_TraceOfSuccess ==
    (layer = "api" /\ ActionsThenFinal) =>
        LET k == Len(Assistants) - 1
        IN  /\ Len(steps) = k + 1
            /\ \A i \in 1..k :
                   steps[i].type = "REACT_CYCLE" /\ steps[i].iteration = i
            /\ steps[k + 1].type = "FINAL_ANSWER"
            /\ steps[k + 1].iteration = k + 1
            /\ envelope.status = "success"
            /\ envelope.iterations = k + 1
            /\ envelope.steps = steps

\* C32 witness: one cycle with the COUNT(*) query, then the final answer 8
C32_Witness ==
    /\ layer = "api"
    /\ ActionsThenFinal
    /\ Len(steps) = 2
    /\ steps[1].type = "REACT_CYCLE"
    /\ steps[1].action = "query_database"
    /\ steps[2].type = "FINAL_ANSWER"
    /\ steps[2].final_answer = <<"8">>
    /\ envelope.iterations = 2

\* the history a run starts from
InitialHistory == <<Message("system", system_prompt), Message("user", user_query)>>

\* C33: whatever runs were made before, a run starts from the history
\* [system prompt, user query] with iteration 1, its history and what it
\* passes to the provider hold nothing but those two messages and the
\* messages of its own passes
C33_RunsIndependent ==
    pc # "idle" =>
        /\ Len(history) >= 2
        /\ SubSeq(history, 1, 2) = InitialHistory
        /\ Len(history) <= 2 + 2 * llm_calls
        /\ llm_calls = 0 => (history = InitialHistory /\ iteration = 1)
        /\ sent # <<>> =>
               /\ Len(sent) >= 2
               /\ SubSeq(sent, 1, 2) = InitialHistory
               /\ Len(sent) <= 2 * llm_calls

\* C33 witness: the second run on the agent makes its first provider call,
\* with a history of two messages
C33_Witness ==
    /\ runs = 2
    /\ pc = "returned"
    /\ llm_calls = 1
    /\ sent = InitialHistory

\* C36: in SQLReActAgent.run the history is system, user, and then
\* assistant and user in turn; what a provider call is passed ends with a
\* user message
C36_RolesAlternate ==
    layer = "agent" =>
        /\ \A i \in DOMAIN history :
               history[i].role = (IF i = 1 THEN "system"
                                  ELSE IF i % 2 = 0 THEN "user" ELSE "assistant")
        /\ pc \in {"attempt", "backoff"} => history[Len(history)].role = "user"
        /\ sent # <<>> => sent[Len(sent)].role = "user"

\* C36 witness: the third provider call of a run, after a pass without an
\* action and a pass with one
C36_Witness ==
    /\ layer = "agent"
    /\ pc = "attempt"
    /\ Len(history) = 6
    /\ history[4] = Message("user", Corrective)
    /\ history[6].content[1] = "OBSERVATION:"

\* agent.py: what a pass of SQLReActAgent.run appends for the response r
AgentAppend(r) ==
    <<Message("assistant", r)>>
    \o (IF has_final_answer(r) THEN <<>>
        ELSE LET a == extract_action_from_response(r)
             IN  IF ~a.found THEN <<Message("user", Corrective)>>
                 ELSE <<Message("user", <<"OBSERVATION:">>
                                        \o AgentObservation(a.name, a.params))>>)

\* C37: in both loops a pass whose call returned appends what
\* SQLReActAgent.run appends for that response, and the request layer's
\* status names the path by which the run ended
C37_SameStateMachine ==
    /\ (PassEnded /\ outcome # "error") =>
           SubSeq(history, len_at_start + 1, Len(history)) = AgentAppend(response)
    /\ (layer = "api" /\ pc = "done") =>
           envelope.status = (IF outcome = "final" THEN "success" ELSE outcome)

\* C39: the connection a request opened is open while its loop runs and
\* closed when it has returned, and the tools it calls are given that
\* connection
C39_ConnectionClosed ==
    layer = "api" =>
        /\ pc \notin {"idle", "done"} => db_conn = "open"
        /\ pc = "done" => db_conn = "closed"
        /\ conn_used \in {"none", "request"}
        /\ (pc = "observe" /\ action.name \in {"list_tables", "describe_table",
                                               "query_database"}) =>
               conn_used = "request"

\* C39 witness: a request whose LLM call failed has returned
C39_Witness ==
    /\ layer = "api"
    /\ pc = "done"
    /\ outcome = "error"
    /\ db_conn = "closed"

=====
